---- MODULE Spec2Model ----
(***************************************************************************)
(* Verification model of the agentic-mcp daemon.                           *)
(*                                                                         *)
(*  Spec         the socket daemon (MCPDaemon): session registry,          *)
(*               bootstrap, reload, routing and the idle sweep.            *)
(*                                                                         *)
(*  SpecAdapter  one request/response correlator: a transport adapter     *)
(*               (StdioTransport, SseTransport, HttpStreamableTransport)   *)
(*               or ProgressiveMCPClient.sendRequest over its transport's  *)
(*               onmessage handler, with the provider at the other end.    *)
(*                                                                         *)
(*  SpecSocket   the daemon's socket front-end: connections, line         *)
(*               framing, dispatch of commands, reload, shutdown.          *)
(*                                                                         *)
(*  SpecClient   one ProgressiveMCPClient with its provider: connect,      *)
(*               disconnect, the cache reads and callTool.                 *)
(*                                                                         *)
(*  SpecStdio    one StdioTransport and the children it spawns.            *)
(*                                                                         *)
(*  SpecSocketClient  one SocketClient under MCPClient.sendCommand, with   *)
(*               the sockets it opens and the daemon's responses.          *)
(*                                                                         *)
(*  SpecFraming  the 'data' handler of one daemon connection, byte by      *)
(*               byte: the shared buffer and the runs of the handler.      *)
(*                                                                         *)
(*  SpecLauncher the daemon processes of one session group, their pid and  *)
(*               socket files, the liveness checks and ensureDaemon.       *)
(*                                                                         *)
(*  SpecPorts    getPortForSession on the daemon's and the caller's side.  *)
(*                                                                         *)
(* Time is a discrete clock.  In Spec one tick is thirty minutes, so the   *)
(* 30 minute idle threshold is 1 tick; in SpecAdapter one tick is thirty   *)
(* seconds, so the 30 s request timeout is 1 tick.                         *)
(***************************************************************************)
EXTENDS Integers, Sequences, FiniteSets, TLC

(***************************************************************************)
(* Bounds of the model.                                                    *)
(***************************************************************************)
MaxClients == 3      \* ProgressiveMCPClient objects created in one run
MaxReloads == 2      \* reload commands received in one run
MaxTime == 2         \* last value of the daemon clock (ticks)
MaxCalls == 2        \* requests sent through one correlator
MaxAdapterTime == 2  \* last value of the adapter clock (ticks)

(***************************************************************************)
(* Logical provider names.  "playwright" is the name of the builtin        *)
(* default configuration and of the predefinedServers fallback.            *)
(***************************************************************************)
Names == {"a", "b", "playwright"}

EmptyMap == [n \in {} |-> "ok"]

MapSet(f, k, v) == [x \in DOMAIN f \cup {k} |-> IF x = k THEN v ELSE f[x]]

MapDel(f, k) == [x \in DOMAIN f \ {k} |-> f[x]]

(***************************************************************************)
(* The configuration file as found on disk.  An entry is "ok" or           *)
(* "noparam" (the parameter its transport kind requires is missing).       *)
(***************************************************************************)
CfgAB == [kind |-> "file", servers |-> [n \in {"a", "b"} |-> "ok"]]
CfgA == [kind |-> "file", servers |-> [n \in {"a"} |-> "ok"]]
CfgABad == [kind |-> "file", servers |-> [n \in {"a", "b"} |-> IF n = "a" THEN "noparam" ELSE "ok"]]
CfgEmpty == [kind |-> "file", servers |-> EmptyMap]
CfgInvalid == [kind |-> "invalid", servers |-> EmptyMap]
CfgMissing == [kind |-> "missing", servers |-> EmptyMap]

DiskChoices == {CfgAB, CfgA, CfgABad, CfgEmpty, CfgInvalid, CfgMissing}

VARIABLES
    phase,          \* "constructed" | "booting" | "running"
    serverConfigs,  \* MCPDaemon.serverConfigs: name -> entry
    sessions,       \* MCPDaemon.sessions: name -> SessionInfo
    clients,        \* every ProgressiveMCPClient created, by creation order
    procs,          \* process 0 is preconnectServers, r >= 1 the r-th reload
    nReloads,       \* reload commands received so far
    now,            \* the daemon clock
    lastOp,         \* the operation that produced this state
    kind,           \* "stdio" | "sse" | "http" | "client"
    link,           \* the channel reference: "null" | "open" | "lost"
    requestId,      \* the id counter
    pendingRequests,\* ids in the pendingRequests map
    onmessage,      \* transport.onmessage: 0 the SDK's handler, k that of call k
    calls,          \* every call made: its promise and what it was sent with
    timers,         \* ids whose timeout timer is armed
    served,         \* provider: ids of the requests it has received
    answered,       \* provider: ids it has answered
    wire,           \* responses on their way to the correlator
    delivered,      \* ids of the responses handed to the correlator
    tnow,           \* the adapter clock
    conn,           \* socket connections: "none" | "open" | "ended" | "closed"
    inbuf,          \* per connection: the lines read and not yet extracted
    loops,          \* per connection: data handlers running their while loop
    cmds,           \* per connection: ids of the commands the caller sent
    answers,        \* per connection: ids of the response lines written
    running,        \* handlers suspended in `await handleSocketRequest`
    lastResp,       \* the last response handed to socket.write, with its command
    listening,      \* the socket server accepts connections
    artifacts,      \* the pid file and the socket / port file exist
    config,         \* ProgressiveMCPClient.config
    transport,      \* ProgressiveMCPClient.transport: 0 is null, k the k-th channel
    metadata,       \* ProgressiveMCPClient._metadata
    toolsCache,     \* ProgressiveMCPClient._toolsCache
    channels,       \* every transport created: its state and what it has carried
    invocations,    \* connect() and disconnect() calls suspended in an await
    toolCalls,      \* call requests forwarded and not yet answered
    catalog,        \* provider: the tool list it would answer with now
    ret,            \* what the last operation on the client returned or threw
    process,        \* StdioTransport.process: 0 is null, k the k-th child
    children,       \* every child spawned: alive, signals received
    graceTimers,    \* armed 2 s timers of disconnect()
    ptime,          \* the clock of the spawned-process adapter (seconds)
    kSocket,        \* SocketClient.socket: 0 is null, s the s-th socket created
    kConnected,     \* SocketClient.connected
    kSockets,       \* every socket created: its state, the handler sets attached
    kRequestId,     \* SocketClient.requestId
    kPending,       \* ids in SocketClient.pendingRequests
    kTimers,        \* ids whose request timer is armed
    kSends,         \* the send() calls made through MCPClient.sendCommand
    fSent,          \* framing: the bytes the caller sends on one connection
    fRest,          \* framing: the bytes not yet delivered to the daemon
    fBuffer,        \* framing: `buffer` of handleSocketConnection
    fHandlers,      \* framing: the lines of the runs suspended in their await
    fDispatched,    \* framing: the lines handed to handleSocketRequest, in order
    fAnswers,       \* framing: the lines answered (response or error), in order
    isWindows,      \* launcher: the platform has no domain sockets
    pidFile,        \* launcher: the pid file of the session group: 0 or the pid
    addrFile,       \* launcher: the socket / port file: 0 or the pid that made it
    daemons,        \* launcher: the daemon processes spawned
    callers,        \* launcher: the ensureDaemon calls
    lastCheck,      \* launcher: the last liveness check and what it saw
    sessionName,    \* ports: the session-group name (code units)
    ports           \* ports: the port derived by the daemon and by the caller

dvars == <<phase, serverConfigs, sessions, clients, procs, nReloads, now>>

avars == <<kind, link, requestId, pendingRequests, onmessage, calls, timers,
           served, answered, wire, delivered, tnow>>

svars == <<conn, inbuf, loops, cmds, answers, running, lastResp, listening, artifacts>>

cvars == <<config, transport, metadata, toolsCache, channels, invocations,
           toolCalls, catalog, ret>>

pvars == <<process, children, graceTimers, ptime>>

kvars == <<kSocket, kConnected, kSockets, kRequestId, kPending, kTimers, kSends>>

fvars == <<fSent, fRest, fBuffer, fHandlers, fDispatched, fAnswers>>

lvars == <<isWindows, pidFile, addrFile, daemons, callers, lastCheck, sessionName, ports>>

xvars == <<cvars, pvars, kvars, fvars, lvars>>

vars == <<dvars, avars, svars, xvars, lastOp>>

(***************************************************************************)
(* Object.keys order: the order in which the names appear in the file.     *)
(***************************************************************************)
KeyOrder == <<"a", "b", "playwright">>

KeySeq(D) == SelectSeq(KeyOrder, LAMBDA n : n \in D)

(***************************************************************************)
(* MCPDaemon.loadServerConfigs: replaces serverConfigs by the file's       *)
(* servers object, or by the builtin default when no file is found;        *)
(* throws when the file cannot be read or has no servers object.           *)
(***************************************************************************)
BuiltinDefault == [n \in {"playwright"} |-> "ok"]

(* variant: a load that falls back to the builtin default on a bad file *)
LoadServerConfigs_Fallback(d) ==
    IF d.kind = "file" THEN [ok |-> TRUE, cfg |-> d.servers]
    ELSE [ok |-> TRUE, cfg |-> BuiltinDefault]

LoadServerConfigs(d) ==
    CASE d.kind = "file" -> [ok |-> TRUE, cfg |-> d.servers]
      [] d.kind = "missing" -> [ok |-> TRUE, cfg |-> BuiltinDefault]
      [] OTHER -> [ok |-> FALSE, cfg |-> EmptyMap]

predefinedServers == <<"playwright">>

(* preconnectServers: every configured name, or predefinedServers when the *)
(* configuration is empty.                                                 *)
ServersToConnect(cfg) ==
    IF DOMAIN cfg # {} THEN KeySeq(DOMAIN cfg) ELSE predefinedServers

(* getServerConfig throws for a name serverConfigs does not hold. *)
GetServerConfigOk(cfg, n) == n \in DOMAIN cfg

(* createTransport throws when the required parameter is missing. *)
CreateTransportOk(entry) == entry = "ok"

(***************************************************************************)
(* ProgressiveMCPClient.  transport: this.transport is non-null;           *)
(* metadata / tools: the caches are filled; conn: progress of connect();   *)
(* closing: a disconnect() nobody awaits is suspended in transport.close().*)
(***************************************************************************)
NewClient(n) ==
    [name |-> n, transport |-> TRUE, metadata |-> FALSE, tools |-> FALSE,
     conn |-> "connecting", closing |-> FALSE]

(* disconnect(), after transport.close() has returned *)
Disconnected(c) ==
    [c EXCEPT !.transport = FALSE, !.metadata = FALSE, !.tools = FALSE,
              !.closing = FALSE]

isConnected(c) == c.transport

getCachedMetadata(c) == c.metadata

(* SessionInfo as preconnectServers and reconnectServers build it *)
NewSession(c, t) == [client |-> c, lastActivityAt |-> t]

(* handleSocketRequest: session.lastActivityAt = new Date() *)
StampActivity(s, t) == [s EXCEPT !.lastActivityAt = t]

IDLE_TIMEOUT == 1

(* variant: a sweep that exempts no session *)
IsPreconfigured_Never(cfg, n) == FALSE

(* cleanupIdleSessions: sessions whose server has a configuration are kept *)
IsPreconfigured(cfg, n) == n \in DOMAIN cfg

(* variant: a sweep that evicts at the threshold already *)
IsIdle_AtThreshold(s, t) == t - s.lastActivityAt >= IDLE_TIMEOUT

IsIdle(s, t) == t - s.lastActivityAt > IDLE_TIMEOUT

(***************************************************************************)
(* A process is one run of preconnectServers (disc = FALSE) or of          *)
(* reconnectServers (disc = TRUE).  todo: the names still to visit, its    *)
(* head being the current one; cl: the client it awaits.                   *)
(***************************************************************************)
IdleProc ==
    [pc |-> "idle", todo |-> <<>>, cl |-> 0, disc |-> FALSE,
     reconnected |-> <<>>, failed |-> {}, firstClient |-> 0]

(* variant: a failure that ends the loop instead of moving to the next name *)
Skip_Abort(P) == [P EXCEPT !.todo = <<>>, !.failed = @ \cup {Head(P.todo)}]

(* the catch block of an iteration: log, then the next name *)
Skip(P) == [P EXCEPT !.todo = Tail(@), !.failed = @ \cup {Head(P.todo)}]

(***************************************************************************)
(* The body of the for loop of preconnectServers / reconnectServers, run   *)
(* from the head of an iteration up to the next await that suspends it.    *)
(*   ServerLoop: top of an iteration (disconnect of the existing session)  *)
(*   ConnectNew: the try block of the iteration                            *)
(***************************************************************************)
RECURSIVE ServerLoop(_, _, _, _), ConnectNew(_, _, _, _)

ConnectNew(cfg, S, C, P) ==
    LET n == Head(P.todo) IN
    IF ~GetServerConfigOk(cfg, n) \/ ~CreateTransportOk(cfg[n])
    THEN ServerLoop(cfg, S, C, Skip(P))
    ELSE [s |-> S, c |-> Append(C, NewClient(n)),
          p |-> [P EXCEPT !.pc = "connecting", !.cl = Len(C) + 1]]

ServerLoop(cfg, S, C, P) ==
    IF P.todo = <<>>
    THEN [s |-> S, c |-> C, p |-> [P EXCEPT !.pc = "done", !.cl = 0]]
    ELSE LET n == Head(P.todo) IN
         IF P.disc /\ n \in DOMAIN S
         THEN IF isConnected(C[S[n].client])
              THEN [s |-> S, c |-> C,
                    p |-> [P EXCEPT !.pc = "disconnecting", !.cl = S[n].client]]
              ELSE ConnectNew(cfg, MapDel(S, n),
                              [C EXCEPT ![S[n].client] = Disconnected(@)], P)
         ELSE ConnectNew(cfg, S, C, P)

Op(o, n, h) == [op |-> o, name |-> n, hit |-> h]

DInit ==
    /\ phase = "constructed"
    /\ \E d \in DiskChoices : /\ LoadServerConfigs(d).ok
                              /\ serverConfigs = LoadServerConfigs(d).cfg
    /\ sessions = EmptyMap
    /\ clients = <<>>
    /\ procs = [p \in 0..MaxReloads |-> IdleProc]
    /\ nReloads = 0
    /\ now = 0
    /\ lastOp = Op("init", "", FALSE)

(* the daemon listens once preconnectServers has returned *)
PhaseAfter(P0) == IF P0.pc = "done" THEN "running" ELSE "booting"

Commit(p, R) ==
    /\ Len(R.c) <= MaxClients
    /\ sessions' = R.s
    /\ clients' = R.c
    /\ procs' = [procs EXCEPT ![p] = R.p]
    /\ phase' = IF p = 0 THEN PhaseAfter(R.p) ELSE phase

(* MCPDaemon.start: preconnectServers up to its first await *)
Start ==
    /\ phase = "constructed"
    /\ Commit(0, ServerLoop(serverConfigs, sessions, clients,
                  [IdleProc EXCEPT !.todo = ServersToConnect(serverConfigs),
                                   !.firstClient = 1]))
    /\ lastOp' = Op("start", "", FALSE)
    /\ UNCHANGED avars
    /\ UNCHANGED svars
    /\ UNCHANGED xvars
    /\ UNCHANGED <<serverConfigs, nReloads, now>>

(* the provider answers the handshake and the catalog request: connect()  *)
(* caches metadata and catalog and returns, the session is registered and *)
(* the loop goes on                                                        *)
ConnectOk(p) ==
    LET P == procs[p]
        c == P.cl
        n == Head(P.todo)
    IN
    /\ P.pc = "connecting"
    /\ clients[c].conn = "connecting"
    /\ Commit(p, ServerLoop(serverConfigs,
                  MapSet(sessions, n, NewSession(c, now)),
                  [clients EXCEPT ![c].conn = "done", ![c].metadata = TRUE,
                                  ![c].tools = TRUE],
                  [P EXCEPT !.todo = Tail(@), !.reconnected = Append(@, n)]))
    /\ lastOp' = Op("connected", "", FALSE)
    /\ UNCHANGED avars
    /\ UNCHANGED svars
    /\ UNCHANGED xvars
    /\ UNCHANGED <<serverConfigs, nReloads, now>>

(* connect() throws (the handshake or the catalog request failed): the    *)
(* catch block logs, the client is dropped and the loop goes on           *)
ConnectFail(p) ==
    LET P == procs[p]
        c == P.cl
    IN
    /\ P.pc = "connecting"
    /\ clients[c].conn = "connecting"
    /\ Commit(p, ServerLoop(serverConfigs, sessions,
                  [clients EXCEPT ![c].conn = "failed"],
                  Skip(P)))
    /\ lastOp' = Op("connectFailed", "", FALSE)
    /\ UNCHANGED avars
    /\ UNCHANGED svars
    /\ UNCHANGED xvars
    /\ UNCHANGED <<serverConfigs, nReloads, now>>

ReloadInProgress == \E p \in 1..MaxReloads : procs[p].pc \in {"disconnecting", "connecting"}

(* handleSocketRequest, action "reload": loadServerConfigs, then          *)
(* reconnectServers up to its first await.  d: the file as it is read.     *)
ReloadEffect(d) ==
    LET r == nReloads + 1
        L == LoadServerConfigs(d)
    IN
    /\ nReloads' = r
    /\ IF L.ok
       THEN /\ serverConfigs' = L.cfg
            /\ Commit(r, ServerLoop(L.cfg, sessions, clients,
                          [IdleProc EXCEPT !.todo = KeySeq(DOMAIN L.cfg), !.disc = TRUE,
                                           !.firstClient = Len(clients) + 1]))
       ELSE /\ procs' = [procs EXCEPT ![r].pc = "error"]
            /\ UNCHANGED <<serverConfigs, sessions, clients, phase>>

Reload(d) ==
    /\ phase = "running"
    /\ nReloads < MaxReloads
    /\ ReloadEffect(d)
    /\ lastOp' = Op("reload", "", LoadServerConfigs(d).ok)
    /\ UNCHANGED avars
    /\ UNCHANGED svars
    /\ UNCHANGED xvars
    /\ UNCHANGED now

(* reconnectServers after `await existing.client.disconnect()`            *)
DisconnectResume(p) ==
    LET P == procs[p]
        c == P.cl
        n == Head(P.todo)
    IN
    /\ P.pc = "disconnecting"
    /\ Commit(p, ConnectNew(serverConfigs, MapDel(sessions, n),
                  [clients EXCEPT ![c] = Disconnected(@)], P))
    /\ lastOp' = Op("disconnected", "", FALSE)
    /\ UNCHANGED avars
    /\ UNCHANGED svars
    /\ UNCHANGED xvars
    /\ UNCHANGED <<serverConfigs, nReloads, now>>

(* handleSocketRequest for a per-server action *)
Route(n) ==
    /\ phase = "running"
    /\ IF n \in DOMAIN sessions
       THEN sessions' = [sessions EXCEPT ![n] = StampActivity(@, now)]
       ELSE UNCHANGED sessions
    /\ lastOp' = Op("route", n, n \in DOMAIN sessions)
    /\ UNCHANGED avars
    /\ UNCHANGED svars
    /\ UNCHANGED xvars
    /\ UNCHANGED <<phase, serverConfigs, clients, procs, nReloads, now>>

(* cleanupIdleSessions, run by the interval timer *)
Evicted(cfg, S, t) == {n \in DOMAIN S : ~IsPreconfigured(cfg, n) /\ IsIdle(S[n], t)}

Sweep ==
    LET gone == Evicted(serverConfigs, sessions, now)
        cs == {sessions[n].client : n \in gone}
    IN
    /\ phase = "running"
    /\ sessions' = [n \in DOMAIN sessions \ gone |-> sessions[n]]
    /\ clients' = [c \in DOMAIN clients |->
                     IF c \in cs
                     THEN IF isConnected(clients[c])
                          THEN [clients[c] EXCEPT !.closing = TRUE]
                          ELSE Disconnected(clients[c])
                     ELSE clients[c]]
    /\ lastOp' = Op("sweep", "", gone # {})
    /\ UNCHANGED avars
    /\ UNCHANGED svars
    /\ UNCHANGED xvars
    /\ UNCHANGED <<phase, serverConfigs, procs, nReloads, now>>

(* a disconnect() started by the sweep gets past transport.close() *)
DisconnectDone(c) ==
    /\ clients[c].closing
    /\ clients' = [clients EXCEPT ![c] = Disconnected(@)]
    /\ lastOp' = Op("closed", "", FALSE)
    /\ UNCHANGED avars
    /\ UNCHANGED svars
    /\ UNCHANGED xvars
    /\ UNCHANGED <<phase, serverConfigs, sessions, procs, nReloads, now>>

Tick ==
    /\ now < MaxTime
    /\ now' = now + 1
    /\ lastOp' = Op("tick", "", FALSE)
    /\ UNCHANGED avars
    /\ UNCHANGED svars
    /\ UNCHANGED xvars
    /\ UNCHANGED <<phase, serverConfigs, sessions, clients, procs, nReloads>>

DNext ==
    \/ Start
    \/ \E p \in 0..MaxReloads : ConnectOk(p)
    \/ \E p \in 0..MaxReloads : ConnectFail(p)
    \/ \E d \in DiskChoices : Reload(d)
    \/ \E p \in 1..MaxReloads : DisconnectResume(p)
    \/ \E n \in Names : Route(n)
    \/ Sweep
    \/ \E c \in DOMAIN clients : DisconnectDone(c)
    \/ Tick


(***************************************************************************)
(* The request/response correlators.                                       *)
(***************************************************************************)
Adapters == {"stdio", "sse", "http"}

Kinds == Adapters \cup {"client"}

Args == {"x", "y"}

RequestTimeout == 1

(* isConnected() of each transport; for "client", ProgressiveMCPClient's *)
TransportIsConnected(k, l) ==
    CASE k = "stdio" -> l # "null"
      [] k = "sse" -> l = "open"
      [] k = "http" -> l = "open"
      [] OTHER -> l # "null"

(* the guard that opens sendRequest *)
CanSend(k, l) ==
    CASE k = "stdio" -> l # "null"
      [] k = "sse" -> l = "open"
      [] k = "http" -> l = "open"
      [] OTHER -> l # "null"

(* sendRequest arms a timeout for the call *)
HasTimeout(k) == k \in {"sse", "http"}

(* sendRequest files the call in the pendingRequests map *)
HasPendingMap(k) == k \in {"stdio", "sse"}

NewCall(arg, t, l, h) ==
    [arg |-> arg, st |-> "pending", res |-> "", sentAt |-> t,
     afterLoss |-> (l = "lost"), atLoss |-> FALSE, orig |-> h]

(* a promise settles once *)
Settle(K, id, st, res) ==
    IF K[id].st = "pending" THEN [K EXCEPT ![id].st = st, ![id].res = res] ELSE K

SettleWith(K, m) ==
    Settle(K, m.id, IF m.err THEN "rejected" ELSE "resolved", IF m.err THEN "rpc" ELSE m.val)

(* variant: a response handler that settles the call of any id it is given *)
handleResponse_AnyId(P, K, m) == [p |-> P \ {m.id}, k |-> SettleWith(K, m)]

(* StdioTransport.handleResponse, SseTransport.handleResponse *)
handleResponse(P, K, m) ==
    IF m.id \notin P
    THEN [p |-> P, k |-> K]
    ELSE [p |-> P \ {m.id}, k |-> SettleWith(K, m)]

(* the one-time handler ProgressiveMCPClient.sendRequest installs for      *)
(* call h: it takes the message with its own id and restores the handler   *)
(* it replaced; any other message is dropped.  Handler 0 is the SDK's.     *)
ClientOnMessage(h, K, m) ==
    IF h # 0 /\ m.id = h
    THEN [h |-> K[h].orig, k |-> SettleWith(K, m)]
    ELSE [h |-> h, k |-> K]

(* the process 'exit' handler of StdioTransport: every pending call is     *)
(* rejected and the map cleared; SseTransport's onerror only logs          *)
OnChannelLost(k, P, K) ==
    IF k = "stdio"
    THEN [p |-> {}, k |-> [id \in DOMAIN K |->
                             IF id \in P /\ K[id].st = "pending"
                             THEN [K[id] EXCEPT !.st = "rejected", !.res = "closed"]
                             ELSE K[id]]]
    ELSE [p |-> P, k |-> K]

AInit ==
    /\ kind \in Kinds
    /\ link = "null"
    /\ requestId = 0
    /\ pendingRequests = {}
    /\ onmessage = 0
    /\ calls = <<>>
    /\ timers = {}
    /\ served = {}
    /\ answered = {}
    /\ wire = {}
    /\ delivered = {}
    /\ tnow = 0

(* connect(): a second connect on a live reference returns at once *)
AConnect ==
    /\ link = "null"
    /\ link' = "open"
    /\ onmessage' = 0
    /\ lastOp' = Op("connect", "", TRUE)
    /\ UNCHANGED <<kind, requestId, pendingRequests, calls, timers, served, answered,
                   wire, delivered, tnow>>
    /\ UNCHANGED dvars
    /\ UNCHANGED svars
    /\ UNCHANGED xvars

(* sendRequest(method, params).  posted: the write / POST / send succeeds. *)
ASend(arg, posted) ==
    LET id == requestId + 1
        K == Append(calls, NewCall(arg, tnow, link, onmessage))
    IN
    /\ kind # "none"
    /\ requestId < MaxCalls
    /\ IF ~CanSend(kind, link)
       THEN /\ lastOp' = Op("send", arg, FALSE)
            /\ UNCHANGED <<requestId, pendingRequests, onmessage, calls, timers, served>>
       ELSE /\ lastOp' = Op("send", arg, TRUE)
            /\ requestId' = id
            /\ served' = IF posted /\ link = "open" THEN served \cup {id} ELSE served
            /\ timers' = IF HasTimeout(kind) /\ (posted \/ kind = "sse")
                         THEN timers \cup {id} ELSE timers
            /\ pendingRequests' =
                  IF HasPendingMap(kind) /\ (posted \/ kind = "sse")
                  THEN pendingRequests \cup {id} ELSE pendingRequests
            /\ onmessage' = IF kind = "client" /\ posted THEN id ELSE onmessage
            /\ calls' = IF posted THEN K ELSE Settle(K, id, "rejected", "send")
    /\ UNCHANGED <<kind, link, answered, wire, delivered, tnow>>
    /\ UNCHANGED dvars
    /\ UNCHANGED svars
    /\ UNCHANGED xvars

(* the provider answers a request it has received, with an echo of its    *)
(* argument or with an RPC error                                          *)
Respond(id, err) ==
    /\ id \in served \ answered
    /\ link = "open"
    /\ answered' = answered \cup {id}
    /\ wire' = wire \cup {[id |-> id, val |-> calls[id].arg, err |-> err]}
    /\ lastOp' = Op("respond", calls[id].arg, err)
    /\ UNCHANGED <<kind, link, requestId, pendingRequests, onmessage, calls, timers,
                   served, delivered, tnow>>
    /\ UNCHANGED dvars
    /\ UNCHANGED svars
    /\ UNCHANGED xvars

(* a response reaches the correlator *)
Deliver(m) ==
    /\ m \in wire
    /\ kind = "sse" => link = "open"
    /\ wire' = wire \ {m}
    /\ delivered' = delivered \cup {m.id}
    /\ CASE HasPendingMap(kind) ->
              LET R == handleResponse(pendingRequests, calls, m) IN
              /\ pendingRequests' = R.p
              /\ calls' = R.k
              /\ UNCHANGED <<onmessage, timers>>
         [] kind = "http" ->
              /\ calls' = IF m.id \in timers THEN SettleWith(calls, m) ELSE calls
              /\ timers' = timers \ {m.id}
              /\ UNCHANGED <<onmessage, pendingRequests>>
         [] OTHER ->
              LET R == ClientOnMessage(onmessage, calls, m) IN
              /\ onmessage' = R.h
              /\ calls' = R.k
              /\ UNCHANGED <<pendingRequests, timers>>
    /\ lastOp' = Op("deliver", m.val, calls[m.id].st = "pending" /\ calls'[m.id].st # "pending")
    /\ UNCHANGED <<kind, link, requestId, served, answered, tnow>>
    /\ UNCHANGED dvars
    /\ UNCHANGED svars
    /\ UNCHANGED xvars

TimerDue(id) == tnow >= calls[id].sentAt + RequestTimeout

(* the timeout armed by sendRequest fires *)
Timeout(id) ==
    /\ id \in timers
    /\ TimerDue(id)
    /\ timers' = timers \ {id}
    /\ pendingRequests' = pendingRequests \ {id}
    /\ calls' = IF kind = "http" \/ id \in pendingRequests
                THEN Settle(calls, id, "rejected", "timeout") ELSE calls
    /\ lastOp' = Op("timeout", calls[id].arg, calls[id].st = "pending")
    /\ UNCHANGED <<kind, link, requestId, onmessage, served, answered, wire, delivered, tnow>>
    /\ UNCHANGED dvars
    /\ UNCHANGED svars
    /\ UNCHANGED xvars

(* environment: the provider exits or the channel drops *)
ChannelLost ==
    LET R == OnChannelLost(kind, pendingRequests, calls) IN
    /\ kind \in {"stdio", "sse", "client"}
    /\ link = "open"
    /\ link' = "lost"
    /\ pendingRequests' = R.p
    /\ calls' = [id \in DOMAIN calls |->
                   IF calls[id].st = "pending" THEN [R.k[id] EXCEPT !.atLoss = TRUE] ELSE R.k[id]]
    /\ lastOp' = Op("lost", "", FALSE)
    /\ UNCHANGED <<kind, requestId, onmessage, timers, served, answered, wire, delivered, tnow>>
    /\ UNCHANGED dvars
    /\ UNCHANGED svars
    /\ UNCHANGED xvars

(* environment: the EventSource reconnects by itself *)
SseReopen ==
    /\ kind = "sse"
    /\ link = "lost"
    /\ link' = "open"
    /\ lastOp' = Op("reopen", "", FALSE)
    /\ UNCHANGED <<kind, requestId, pendingRequests, onmessage, calls, timers, served,
                   answered, wire, delivered, tnow>>
    /\ UNCHANGED dvars
    /\ UNCHANGED svars
    /\ UNCHANGED xvars

(* disconnect(): the reference is dropped and the map cleared *)
ADisconnect ==
    /\ link # "null"
    /\ link' = "null"
    /\ pendingRequests' = {}
    /\ lastOp' = Op("disconnect", "", FALSE)
    /\ UNCHANGED <<kind, requestId, onmessage, calls, timers, served, answered, wire,
                   delivered, tnow>>
    /\ UNCHANGED dvars
    /\ UNCHANGED svars
    /\ UNCHANGED xvars

ATick ==
    /\ kind # "none"
    /\ tnow < MaxAdapterTime
    /\ \A id \in timers : ~TimerDue(id)
    /\ tnow' = tnow + 1
    /\ lastOp' = Op("tick", "", FALSE)
    /\ UNCHANGED <<kind, link, requestId, pendingRequests, onmessage, calls, timers,
                   served, answered, wire, delivered>>
    /\ UNCHANGED dvars
    /\ UNCHANGED svars
    /\ UNCHANGED xvars

ANext ==
    \/ AConnect
    \/ \E arg \in Args, posted \in BOOLEAN : ASend(arg, posted)
    \/ \E id \in DOMAIN calls, err \in BOOLEAN : Respond(id, err)
    \/ \E m \in wire : Deliver(m)
    \/ \E id \in DOMAIN calls : Timeout(id)
    \/ ChannelLost
    \/ SseReopen
    \/ ADisconnect
    \/ ATick

SIdle ==
    /\ conn = [c \in {} |-> "none"]
    /\ inbuf = [c \in {} |-> <<>>]
    /\ loops = [c \in {} |-> 0]
    /\ cmds = [c \in {} |-> <<>>]
    /\ answers = [c \in {} |-> <<>>]
    /\ running = {}
    /\ lastResp = [t |-> "none"]
    /\ listening = FALSE
    /\ artifacts = FALSE

CIdle ==
    /\ config = [type |-> "-", command |-> FALSE, url |-> FALSE, headers |-> FALSE]
    /\ transport = 0
    /\ metadata = [ch |-> 0]
    /\ toolsCache = <<>>
    /\ channels = <<>>
    /\ invocations = {}
    /\ toolCalls = {}
    /\ catalog = <<>>
    /\ ret = [op |-> "none", arg |-> "", k |-> "ok", msg |-> <<>>, meta |-> [ch |-> 0],
               tools |-> <<>>, result |-> 0]

PIdle ==
    /\ process = 0
    /\ children = <<>>
    /\ graceTimers = {}
    /\ ptime = 0

KIdle ==
    /\ kSocket = 0
    /\ kConnected = FALSE
    /\ kSockets = <<>>
    /\ kRequestId = 0
    /\ kPending = {}
    /\ kTimers = {}
    /\ kSends = <<>>

FIdle ==
    /\ fSent = <<>>
    /\ fRest = <<>>
    /\ fBuffer = <<>>
    /\ fHandlers = <<>>
    /\ fDispatched = <<>>
    /\ fAnswers = <<>>

LIdle ==
    /\ isWindows = FALSE
    /\ pidFile = 0
    /\ addrFile = 0
    /\ daemons = <<>>
    /\ callers = <<>>
    /\ lastCheck = [impl |-> "none", hadPid |-> FALSE, probe |-> FALSE, accepts |-> FALSE, result |-> FALSE]
    /\ sessionName = <<>>
    /\ ports = [daemon |-> 0, client |-> 0]

XIdle == CIdle /\ PIdle /\ KIdle /\ FIdle /\ LIdle

DIdle ==
    /\ phase = "off"
    /\ serverConfigs = EmptyMap
    /\ sessions = EmptyMap
    /\ clients = <<>>
    /\ procs = [p \in 0..MaxReloads |-> IdleProc]
    /\ nReloads = 0
    /\ now = 0

AIdle ==
    /\ kind = "none"
    /\ link = "null"
    /\ requestId = 0
    /\ pendingRequests = {}
    /\ onmessage = 0
    /\ calls = <<>>
    /\ timers = {}
    /\ served = {}
    /\ answered = {}
    /\ wire = {}
    /\ delivered = {}
    /\ tnow = 0

Init == DInit /\ AIdle /\ SIdle /\ XIdle

Next == DNext

Spec == Init /\ [][Next]_vars

InitAdapter == AInit /\ DIdle /\ SIdle /\ XIdle /\ lastOp = Op("init", "", FALSE)

SpecAdapter == InitAdapter /\ [][ANext]_vars

(***************************************************************************)
(* The socket front-end (SpecSocket): connections, line framing, the       *)
(* dispatch of commands and the control actions.                           *)
(***************************************************************************)
MaxConns == 2        \* connections accepted in one run
MaxLines == 2        \* lines sent by all callers in one run

Conns == 1..MaxConns

NoField == "-"       \* a field the record does not have

Null == "null"       \* JSON null

(* the id of the k-th line of a connection; a caller may also send "" *)
IdOf == <<"1", "2", "3", "4", "5", "6">>

Blank == [t |-> "blank"]

Junk == [t |-> "junk"]

Cmd(id, action, server, tool, disk) ==
    [t |-> "cmd", id |-> id, action |-> action, server |-> server, tool |-> tool,
     disk |-> disk]

(* the configuration file a reload command finds *)
SocketDiskChoices == {CfgA, CfgInvalid}

(* the commands callers send, without their id *)
CommandShapes ==
    {<<"ping", NoField, NoField>>, <<"shutdown", NoField, NoField>>,
     <<"sessions", NoField, NoField>>, <<"metadata", "b", NoField>>,
     <<"list", "a", NoField>>, <<"call", "a", "t">>}

LinesWithId(id) ==
    {Cmd(id, sh[1], sh[2], sh[3], CfgEmpty) : sh \in CommandShapes}
        \cup {Cmd(id, "reload", NoField, NoField, d) : d \in SocketDiskChoices}

Resp(id, ok, tag, names) == [id |-> id, success |-> ok, tag |-> tag, names |-> names]

(* the catch block of the data handler: id: request?.id || null *)
ErrId(line) == IF line.t # "cmd" \/ line.id = "" \/ line.id = NoField THEN Null ELSE line.id

ErrResp(line, tag) == Resp(ErrId(line), FALSE, tag, {})

PerServerActions == {"metadata", "list", "schema", "call", "health", "sessions"}

(* variant: a handler that answers every request with an empty pong *)
handleSocketRequest_EmptyPong(req, S, C, t) ==
    [k |-> "return", resp |-> Resp(req.id, TRUE, "pong", {}), s |-> S]

(***************************************************************************)
(* handleSocketRequest up to its first await on I/O.                       *)
(*   k = "return": it returns resp;  k = "throw": it throws;               *)
(*   k = "await": it is suspended in op (call, reload, shutdown).          *)
(* s: the session map it leaves.  names: the names a response carries.     *)
(***************************************************************************)
handleSocketRequest(req, S, C, t) ==
    LET id == req.id
        Return(ok, tag, names) == [k |-> "return", resp |-> Resp(id, ok, tag, names), s |-> S]
    IN
    CASE req.action = "ping" -> Return(TRUE, "pong", DOMAIN S)
      [] req.action = "reload" -> [k |-> "await", op |-> "reload", s |-> S]
      [] req.action = "shutdown" -> [k |-> "await", op |-> "shutdown", s |-> S]
      [] OTHER ->
           IF req.server \notin DOMAIN S
           THEN Return(FALSE, "ServerNotFound", {req.server} \ {NoField})
           ELSE LET S1 == [S EXCEPT ![req.server] = StampActivity(@, t)]
                    cl == C[S[req.server].client]
                    Ret(ok, tag, names) ==
                        [k |-> "return", resp |-> Resp(id, ok, tag, names), s |-> S1]
                IN
                CASE req.action = "metadata" ->
                       IF getCachedMetadata(cl) THEN Ret(TRUE, "metadata", {})
                       ELSE Ret(FALSE, "MetadataNotAvailable", {})
                  [] req.action = "list" ->
                       IF isConnected(cl) THEN Ret(TRUE, "tools", {})
                       ELSE [k |-> "throw", tag |-> "NotConnected", s |-> S1]
                  [] req.action = "schema" ->
                       IF req.tool = NoField THEN Ret(FALSE, "ToolRequired", {})
                       ELSE IF isConnected(cl) /\ cl.tools /\ req.tool = "t"
                            THEN Ret(TRUE, "schema", {})
                            ELSE Ret(FALSE, "ToolNotFound", {})
                  [] req.action = "call" ->
                       IF req.tool = NoField THEN Ret(FALSE, "ToolRequired", {})
                       ELSE IF isConnected(cl)
                            THEN [k |-> "await", op |-> "call", s |-> S1]
                            ELSE [k |-> "throw", tag |-> "NotConnected", s |-> S1]
                  [] req.action = "health" -> Ret(TRUE, "healthy", {req.server})
                  [] req.action = "sessions" -> Ret(TRUE, "sessions", DOMAIN S1)
                  [] OTHER -> Ret(FALSE, "UnknownAction", {})

(* socket.write(JSON.stringify(response) + '\n'): the line reaches the     *)
(* caller only while this end of the connection has not been ended         *)
Writable(c) == c \in DOMAIN conn /\ conn[c] = "open"

Written(c, line, resp) ==
    /\ answers' = IF Writable(c) THEN [answers EXCEPT ![c] = Append(@, resp.id)] ELSE answers
    /\ lastResp' = [t |-> "resp", conn |-> c, req |-> line, resp |-> resp,
                    written |-> Writable(c)]

(* variant: a loop that ends after the line it has just handled *)
LoopsAfter_Exit(c, buf, n) == [loops EXCEPT ![c] = 0]

(* the while loop of a data handler ends when the buffer holds no line *)
LoopsAfter(c, buf, n) == [loops EXCEPT ![c] = IF buf = <<>> THEN 0 ELSE n]

LinesSent == Cardinality({<<c, i>> \in Conns \X (1..MaxLines) : i <= Len(cmds[c])})

ReloadLines == Cardinality({<<c, i>> \in Conns \X (1..MaxLines) :
                              /\ i <= Len(inbuf[c])
                              /\ inbuf[c][i].t = "cmd"
                              /\ inbuf[c][i].action = "reload"})

SInit ==
    /\ phase = "running"
    /\ serverConfigs = CfgA.servers
    /\ clients = <<[NewClient("a") EXCEPT !.conn = "done", !.metadata = TRUE, !.tools = TRUE]>>
    /\ sessions = [n \in {"a"} |-> NewSession(1, 0)]
    /\ procs = [p \in 0..MaxReloads |->
                  IF p = 0
                  THEN [IdleProc EXCEPT !.pc = "done", !.reconnected = <<"a">>, !.firstClient = 1]
                  ELSE IdleProc]
    /\ nReloads = 0
    /\ now = 1
    /\ conn = [c \in Conns |-> "none"]
    /\ inbuf = [c \in Conns |-> <<>>]
    /\ loops = [c \in Conns |-> 0]
    /\ cmds = [c \in Conns |-> <<>>]
    /\ answers = [c \in Conns |-> <<>>]
    /\ running = {}
    /\ lastResp = [t |-> "none"]
    /\ listening = TRUE
    /\ artifacts = TRUE
    /\ lastOp = Op("init", "", FALSE)

(* createSocketServer's connection callback *)
SConnect(c) ==
    /\ phase = "running"
    /\ listening
    /\ conn[c] = "none"
    /\ \A c2 \in Conns : c2 < c => conn[c2] # "none"
    /\ conn' = [conn EXCEPT ![c] = "open"]
    /\ lastOp' = Op("accept", "", FALSE)
    /\ UNCHANGED <<inbuf, loops, cmds, answers, running, lastResp, listening, artifacts>>
    /\ UNCHANGED dvars
    /\ UNCHANGED avars
    /\ UNCHANGED xvars

(* a caller writes one line.  newEvent: the line opens a new 'data' event; *)
(* otherwise it arrives in the chunk of the line before it.                *)
Data(c, line, newEvent) ==
    /\ phase = "running"
    /\ conn[c] = "open"
    /\ LinesSent < MaxLines
    /\ newEvent \/ inbuf[c] # <<>>
    /\ (line.t = "cmd" /\ line.action = "reload") => nReloads + ReloadLines < MaxReloads
    /\ inbuf' = [inbuf EXCEPT ![c] = Append(@, line)]
    /\ loops' = [loops EXCEPT ![c] = IF newEvent THEN @ + 1 ELSE @]
    /\ cmds' = [cmds EXCEPT ![c] = Append(@, IF line.t = "cmd" THEN line.id ELSE Null)]
    /\ lastOp' = Op("data", "", newEvent)
    /\ UNCHANGED <<conn, answers, running, lastResp, listening, artifacts>>
    /\ UNCHANGED dvars
    /\ UNCHANGED avars
    /\ UNCHANGED xvars

(* one turn of the while loop for a line that needs no I/O: a blank line   *)
(* is skipped, a line JSON.parse rejects or a command that throws gets the *)
(* catch block's response, a command that returns gets its response       *)
ProcessImmediate(c) ==
    LET line == Head(inbuf[c])
        rest == Tail(inbuf[c])
        R == handleSocketRequest(line, sessions, clients, now)
    IN
    /\ phase = "running"
    /\ loops[c] > 0
    /\ inbuf[c] # <<>>
    /\ line.t = "cmd" => R.k # "await"
    /\ inbuf' = [inbuf EXCEPT ![c] = rest]
    /\ loops' = LoopsAfter(c, rest, loops[c])
    /\ CASE line.t = "blank" -> UNCHANGED <<sessions, answers, lastResp>>
         [] line.t = "junk" -> /\ Written(c, line, ErrResp(line, "SyntaxError"))
                               /\ UNCHANGED sessions
         [] OTHER -> /\ sessions' = R.s
                     /\ Written(c, line, IF R.k = "return" THEN R.resp ELSE ErrResp(line, R.tag))
    /\ lastOp' = Op("line", "", line.t = "cmd")
    /\ UNCHANGED <<conn, cmds, running, listening, artifacts>>
    /\ UNCHANGED <<phase, serverConfigs, clients, procs, nReloads, now>>
    /\ UNCHANGED avars
    /\ UNCHANGED xvars

AwaitedOp(c) ==
    IF loops[c] > 0 /\ inbuf[c] # <<>> /\ Head(inbuf[c]).t = "cmd"
    THEN LET R == handleSocketRequest(Head(inbuf[c]), sessions, clients, now) IN
         IF R.k = "await" THEN R.op ELSE "none"
    ELSE "none"

SessionClients(S) == {S[n].client : n \in DOMAIN S}

(* a suspended handler.  stage / waiting: progress of stop(); r: the run   *)
(* of reconnectServers a reload awaits.  For a reload, waiting records the *)
(* clients of the sessions tracked when the command was taken up (the code *)
(* keeps no such list).                                                    *)
StopState(stage, cs, r) == [stage |-> stage, waiting |-> cs, r |-> r]

Handler(c, line, op, x) == [conn |-> c, req |-> line, op |-> op, x |-> x]

(* case 'call': the handler is suspended in `await session.client.callTool` *)
BeginCall(c) ==
    LET line == Head(inbuf[c])
        rest == Tail(inbuf[c])
    IN
    /\ phase = "running"
    /\ AwaitedOp(c) = "call"
    /\ inbuf' = [inbuf EXCEPT ![c] = rest]
    /\ loops' = LoopsAfter(c, rest, loops[c] - 1)
    /\ sessions' = handleSocketRequest(line, sessions, clients, now).s
    /\ running' = running \cup {Handler(c, line, "call", StopState("", {}, 0))}
    /\ lastOp' = Op("call", line.server, TRUE)
    /\ UNCHANGED <<conn, cmds, answers, lastResp, listening, artifacts>>
    /\ UNCHANGED <<phase, serverConfigs, clients, procs, nReloads, now>>
    /\ UNCHANGED avars
    /\ UNCHANGED xvars

(* callTool returns a result or throws *)
CallDone(h, ok) ==
    /\ phase = "running"
    /\ h \in running
    /\ h.op = "call"
    /\ running' = running \ {h}
    /\ Written(h.conn, h.req, IF ok THEN Resp(h.req.id, TRUE, "result", {})
                              ELSE ErrResp(h.req, "CallFailed"))
    /\ loops' = LoopsAfter(h.conn, inbuf[h.conn], loops[h.conn] + 1)
    /\ lastOp' = Op("callDone", "", ok)
    /\ UNCHANGED <<conn, inbuf, cmds, listening, artifacts>>
    /\ UNCHANGED dvars
    /\ UNCHANGED avars
    /\ UNCHANGED xvars

(* action 'reload': loadServerConfigs throws, or the handler is suspended  *)
(* in `await this.reconnectServers()`                                      *)
BeginReload(c) ==
    LET line == Head(inbuf[c])
        rest == Tail(inbuf[c])
        ok == LoadServerConfigs(line.disk).ok
    IN
    /\ phase = "running"
    /\ AwaitedOp(c) = "reload"
    /\ nReloads < MaxReloads
    /\ ReloadEffect(line.disk)
    /\ inbuf' = [inbuf EXCEPT ![c] = rest]
    /\ IF ok
       THEN /\ running' = running \cup {Handler(c, line, "reload",
                                           StopState("", SessionClients(sessions), nReloads + 1))}
            /\ loops' = LoopsAfter(c, rest, loops[c] - 1)
            /\ UNCHANGED <<answers, lastResp>>
       ELSE /\ Written(c, line, ErrResp(line, "CannotLoadConfig"))
            /\ loops' = LoopsAfter(c, rest, loops[c])
            /\ UNCHANGED running
    /\ lastOp' = Op("reload", "", ok)
    /\ UNCHANGED <<conn, cmds, listening, artifacts>>
    /\ UNCHANGED now
    /\ UNCHANGED avars
    /\ UNCHANGED xvars

(* reconnectServers has returned: the reload is answered *)
ReloadDone(h) ==
    LET rec == procs[h.x.r].reconnected IN
    /\ phase = "running"
    /\ h \in running
    /\ h.op = "reload"
    /\ procs[h.x.r].pc = "done"
    /\ running' = running \ {h}
    /\ Written(h.conn, h.req, Resp(h.req.id, TRUE, "reloaded", {rec[i] : i \in DOMAIN rec}))
    /\ loops' = LoopsAfter(h.conn, inbuf[h.conn], loops[h.conn] + 1)
    /\ lastOp' = Op("reloadDone", "", TRUE)
    /\ UNCHANGED <<conn, inbuf, cmds, listening, artifacts>>
    /\ UNCHANGED dvars
    /\ UNCHANGED avars
    /\ UNCHANGED xvars

(* client.disconnect() called and not awaited yet: a connected client is   *)
(* suspended in transport.close(), the others have returned                *)
StartDisconnects(C, cs) ==
    [cl \in DOMAIN C |->
        IF cl \in cs
        THEN IF isConnected(C[cl]) THEN [C[cl] EXCEPT !.closing = TRUE] ELSE Disconnected(C[cl])
        ELSE C[cl]]

(* action 'shutdown': MCPDaemon.stop() up to Promise.all *)
BeginShutdown(c) ==
    LET line == Head(inbuf[c])
        rest == Tail(inbuf[c])
        cs == SessionClients(sessions)
    IN
    /\ phase = "running"
    /\ AwaitedOp(c) = "shutdown"
    /\ inbuf' = [inbuf EXCEPT ![c] = rest]
    /\ loops' = LoopsAfter(c, rest, loops[c] - 1)
    /\ clients' = StartDisconnects(clients, cs)
    /\ running' = running \cup {Handler(c, line, "shutdown", StopState("disconnecting", cs, 0))}
    /\ lastOp' = Op("shutdown", "", FALSE)
    /\ UNCHANGED <<conn, cmds, answers, lastResp, listening, artifacts>>
    /\ UNCHANGED <<phase, serverConfigs, sessions, procs, nReloads, now>>
    /\ UNCHANGED avars
    /\ UNCHANGED xvars

Signal == Cmd(NoField, "sigint", NoField, NoField, CfgEmpty)

(* the SIGINT handler: await daemon.stop(); process.exit(0) *)
Sigint ==
    LET cs == SessionClients(sessions) IN
    /\ phase = "running"
    /\ \A h \in running : h.conn # 0
    /\ clients' = StartDisconnects(clients, cs)
    /\ running' = running \cup {Handler(0, Signal, "shutdown", StopState("disconnecting", cs, 0))}
    /\ lastOp' = Op("sigint", "", FALSE)
    /\ UNCHANGED <<conn, inbuf, loops, cmds, answers, lastResp, listening, artifacts>>
    /\ UNCHANGED <<phase, serverConfigs, sessions, procs, nReloads, now>>
    /\ UNCHANGED avars
    /\ UNCHANGED xvars

(* stop(): every disconnect has returned; closeServer ends each connection *)
(* and closes the listener                                                 *)
StopCloseServer(h) ==
    /\ phase = "running"
    /\ h \in running
    /\ h.op = "shutdown"
    /\ h.x.stage = "disconnecting"
    /\ \A cl \in h.x.waiting : ~isConnected(clients[cl])
    /\ conn' = [c \in Conns |-> IF conn[c] = "open" THEN "ended" ELSE conn[c]]
    /\ listening' = FALSE
    /\ running' = (running \ {h}) \cup {[h EXCEPT !.x.stage = "closing"]}
    /\ lastOp' = Op("closeServer", "", FALSE)
    /\ UNCHANGED <<inbuf, loops, cmds, answers, lastResp, artifacts>>
    /\ UNCHANGED dvars
    /\ UNCHANGED avars
    /\ UNCHANGED xvars

(* the callers close their end of the connections the daemon has ended *)
ConnClose ==
    /\ phase = "running"
    /\ \E c \in Conns : conn[c] = "ended"
    /\ conn' = [c \in Conns |-> IF conn[c] = "ended" THEN "closed" ELSE conn[c]]
    /\ lastOp' = Op("connClosed", "", FALSE)
    /\ UNCHANGED <<inbuf, loops, cmds, answers, running, lastResp, listening, artifacts>>
    /\ UNCHANGED dvars
    /\ UNCHANGED avars
    /\ UNCHANGED xvars

(* server.close's callback: cleanupSocket, stop() resolves.  The socket    *)
(* handler then writes its response; the SIGINT handler exits the process. *)
StopFinish(h) ==
    /\ phase = "running"
    /\ h \in running
    /\ h.op = "shutdown"
    /\ h.x.stage = "closing"
    /\ \A c \in Conns : conn[c] \in {"none", "closed"}
    /\ artifacts' = FALSE
    /\ IF h.conn = 0
       THEN /\ phase' = "exited"
            /\ running' = {}
            /\ inbuf' = [c \in Conns |-> <<>>]
            /\ loops' = [c \in Conns |-> 0]
            /\ procs' = [p \in 0..MaxReloads |-> IdleProc]
            /\ clients' = [cl \in DOMAIN clients |-> Disconnected(clients[cl])]
            /\ sessions' = EmptyMap
            /\ UNCHANGED <<answers, lastResp, serverConfigs, nReloads, now>>
       ELSE /\ running' = running \ {h}
            /\ Written(h.conn, h.req, Resp(h.req.id, TRUE, "shutdown", {}))
            /\ loops' = LoopsAfter(h.conn, inbuf[h.conn], loops[h.conn] + 1)
            /\ UNCHANGED inbuf
            /\ UNCHANGED dvars
    /\ lastOp' = Op("stopped", "", h.conn = 0)
    /\ UNCHANGED <<conn, cmds, listening>>
    /\ UNCHANGED avars
    /\ UNCHANGED xvars

SNext ==
    \/ \E c \in Conns : SConnect(c)
    \/ \E c \in Conns, newEvent \in BOOLEAN :
          \E line \in {Blank, Junk} \cup LinesWithId(IdOf[Len(cmds[c]) + 1]) \cup LinesWithId("") :
              Data(c, line, newEvent)
    \/ \E c \in Conns : ProcessImmediate(c)
    \/ \E c \in Conns : BeginCall(c)
    \/ \E h \in running, ok \in BOOLEAN : CallDone(h, ok)
    \/ \E c \in Conns : BeginReload(c)
    \/ \E h \in running : ReloadDone(h)
    \/ \E c \in Conns : BeginShutdown(c)
    \/ Sigint
    \/ \E h \in running : StopCloseServer(h)
    \/ ConnClose
    \/ \E h \in running : StopFinish(h)
    \/ \E p \in 1..MaxReloads : ConnectOk(p)
    \/ \E p \in 1..MaxReloads : ConnectFail(p)
    \/ \E p \in 1..MaxReloads : DisconnectResume(p)
    \/ \E c \in DOMAIN clients : DisconnectDone(c)

InitSocket == SInit /\ AIdle /\ XIdle

SpecSocket == InitSocket /\ [][SNext]_vars

(***************************************************************************)
(* One ProgressiveMCPClient with its provider (SpecClient): connect,       *)
(* disconnect, the three cache reads, callTool, and the per-server         *)
(* actions of the daemon that are served by this client.                   *)
(***************************************************************************)
MaxChannels == 2     \* transports created by one client in one run
MaxToolCalls == 2    \* call requests forwarded in one run

Tool(n, d, s) == [name |-> n, description |-> d, inputSchema |-> s]

ToolNames == {"t", "v"}

(* the provider's tool lists; the second one names "t" twice *)
Catalogs ==
    {<<Tool("t", "d1", "s1")>>,
     <<Tool("u", "d3", "s3"), Tool("t", "d1", "s1"), Tool("t", "d2", "s2")>>}

Config(type, command, url, headers) ==
    [type |-> type, command |-> command, url |-> url, headers |-> headers]

ConfigChoices ==
    {Config("stdio", TRUE, FALSE, FALSE), Config(NoField, FALSE, TRUE, TRUE),
     Config("stdio", FALSE, TRUE, FALSE), Config("http", TRUE, FALSE, TRUE),
     Config("sse", TRUE, FALSE, FALSE), Config(NoField, FALSE, FALSE, TRUE),
     Config("ws", TRUE, TRUE, FALSE)}

(* the type createTransport works with: config.type, or the inferred one *)
InferType(cfg) ==
    IF cfg.type # NoField THEN cfg.type
    ELSE IF cfg.command THEN "stdio"
    ELSE IF cfg.url THEN (IF cfg.headers THEN "http" ELSE "sse")
    ELSE "none"

(* variant: a createTransport that checks no parameter *)
createTransport_Unchecked(cfg) == [ok |-> TRUE, type |-> InferType(cfg), err |-> <<>>]

createTransport(cfg) ==
    LET type == InferType(cfg)
        Throw(m) == [ok |-> FALSE, type |-> type, err |-> m]
        Made == [ok |-> TRUE, type |-> type, err |-> <<>>]
    IN
    CASE type = "none" ->
           Throw(<<"Cannot infer transport type: please specify type, url, or command">>)
      [] type = "stdio" ->
           IF ~cfg.command THEN Throw(<<"stdio transport requires command parameter">>)
           ELSE Made
      [] type = "http" ->
           IF ~cfg.url THEN Throw(<<"http transport requires url parameter">>) ELSE Made
      [] type = "sse" ->
           IF ~cfg.url THEN Throw(<<"sse transport requires url parameter">>) ELSE Made
      [] OTHER -> Throw(<<"Unsupported transport type: ", type>>)

(* variant: a transport that has already carried a catalog-list request *)
NewChannel_Listed(type) ==
    [type |-> type, st |-> "new", inits |-> 0, lists |-> 1, callsSent |-> 0,
     ready |-> FALSE]

(* a transport of the SDK once client.connect has started it: the child is *)
(* spawned or the network channel opened.  ready: the connect() that made  *)
(* it has returned.                                                        *)
NewChannel(type) ==
    [type |-> type, st |-> "new", inits |-> 0, lists |-> 0, callsSent |-> 0,
     ready |-> FALSE]

NoMetadata == [ch |-> 0]                 \* _metadata = null

(* variant: the server info of the first channel, whatever the channel *)
Meta_First(k) == [ch |-> 1]

Meta(k) == [ch |-> k]                    \* the server info the handshake on channel k gave

Inv(op, pc, ch) == [op |-> op, pc |-> pc, ch |-> ch]

ToolCall(id, n, ch) == [id |-> id, name |-> n, ch |-> ch]

NotConnectedMsg == <<"Not connected to server, please call connect() first">>

Ret(op, arg, k, msg, meta, tools, result) ==
    [op |-> op, arg |-> arg, k |-> k, msg |-> msg, meta |-> meta, tools |-> tools,
     result |-> result]

Returned(op, arg) == Ret(op, arg, "ok", <<>>, NoMetadata, <<>>, 0)

Threw(op, arg, m) == Ret(op, arg, "err", m, NoMetadata, <<>>, 0)

Awaiting(op, arg) == Ret(op, arg, "await", <<>>, NoMetadata, <<>>, 0)

(* variant: a client that never counts as connected *)
isConnectedNow_Never == FALSE

isConnectedNow == transport # 0          \* isConnected(): this.transport !== null

(* variant: a listTools that keeps the cached entries whole *)
listTools_Whole(cache) == cache

(* listTools' projection of the cache *)
listTools(cache) ==
    [i \in DOMAIN cache |-> [name |-> cache[i].name, description |-> cache[i].description]]

(* Array.prototype.find: the first entry with that name, 0 when none *)
Find(cache, n) ==
    IF \E i \in DOMAIN cache : cache[i].name = n
    THEN CHOOSE i \in DOMAIN cache :
            /\ cache[i].name = n
            /\ \A j \in DOMAIN cache : cache[j].name = n => i <= j
    ELSE 0

(* variant: a getToolSchema that answers for every name *)
getToolSchema_Always(cache, n) ==
    [ok |-> TRUE, msg |-> <<>>, tools |-> <<Tool(n, "", "")>>]

getToolSchema(cache, n) ==
    IF Find(cache, n) = 0
    THEN [ok |-> FALSE, msg |-> <<"Tool not found: ", n>>, tools |-> <<>>]
    ELSE [ok |-> TRUE, msg |-> <<>>,
          tools |-> <<Tool(cache[Find(cache, n)].name, cache[Find(cache, n)].description,
                           cache[Find(cache, n)].inputSchema)>>]

CallsForwarded ==
    IF channels = <<>> THEN 0
    ELSE LET Sum[i \in 0..Len(channels)] ==
                 IF i = 0 THEN 0 ELSE Sum[i - 1] + channels[i].callsSent
         IN Sum[Len(channels)]

CFrame == UNCHANGED <<dvars, avars, svars, pvars, kvars, fvars, lvars, lastOp>>

CInit ==
    /\ config \in ConfigChoices
    /\ transport = 0
    /\ metadata = NoMetadata
    /\ toolsCache = <<>>
    /\ channels = <<>>
    /\ invocations = {}
    /\ toolCalls = {}
    /\ catalog \in Catalogs
    /\ ret = Returned("none", "")

(* connect() up to its first await *)
CConnect ==
    /\ IF isConnectedNow
       THEN /\ ret' = Returned("connect", "again")
            /\ UNCHANGED <<transport, channels, invocations>>
       ELSE IF ~createTransport(config).ok
       THEN /\ ret' = Threw("connect", "", createTransport(config).err)
            /\ UNCHANGED <<transport, channels, invocations>>
       ELSE /\ Len(channels) < MaxChannels
            /\ channels' = Append(channels, NewChannel(createTransport(config).type))
            /\ transport' = Len(channels) + 1
            /\ invocations' = invocations \cup {Inv("connect", "handshake", Len(channels) + 1)}
            /\ ret' = Awaiting("connect", "")
    /\ UNCHANGED <<config, metadata, toolsCache, toolCalls, catalog>>
    /\ CFrame

(* `await this.client.connect(this.transport)` settles: on success connect *)
(* stores the metadata and sends the catalog-list request                  *)
HandshakeDone(i, ok) ==
    /\ i \in invocations
    /\ i.op = "connect" /\ i.pc = "handshake"
    /\ ok => channels[i.ch].st = "new"
    /\ IF ok
       THEN /\ channels' = [channels EXCEPT ![i.ch].st = "open", ![i.ch].inits = @ + 1,
                                             ![i.ch].lists = @ + 1]
            /\ metadata' = Meta(i.ch)
            /\ invocations' = (invocations \ {i}) \cup {Inv("connect", "listing", i.ch)}
            /\ UNCHANGED ret
       ELSE /\ channels' = [channels EXCEPT ![i.ch].st = "closed"]
            /\ invocations' = invocations \ {i}
            /\ ret' = Threw("connect", "", <<"handshake failed">>)
            /\ UNCHANGED metadata
    /\ UNCHANGED <<config, transport, toolsCache, toolCalls, catalog>>
    /\ CFrame

(* `await this.client.listTools()` settles *)
ListDone(i, ok) ==
    /\ i \in invocations
    /\ i.op = "connect" /\ i.pc = "listing"
    /\ ok => channels[i.ch].st = "open"
    /\ invocations' = invocations \ {i}
    /\ IF ok
       THEN /\ toolsCache' = catalog
            /\ channels' = [channels EXCEPT ![i.ch].ready = TRUE]
            /\ ret' = Returned("connect", "")
       ELSE /\ ret' = Threw("connect", "", <<"tools/list failed">>)
            /\ UNCHANGED <<toolsCache, channels>>
    /\ UNCHANGED <<config, transport, metadata, toolCalls, catalog>>
    /\ CFrame

(* disconnect() up to `await this.transport.close()`, or all of it when    *)
(* there is no transport                                                   *)
CDisconnect ==
    /\ IF transport # 0
       THEN /\ channels' = [channels EXCEPT ![transport].st = "closed"]
            /\ invocations' = invocations \cup {Inv("disconnect", "closing", transport)}
            /\ ret' = Awaiting("disconnect", "")
            /\ UNCHANGED <<metadata, toolsCache>>
       ELSE /\ metadata' = NoMetadata
            /\ toolsCache' = <<>>
            /\ ret' = Returned("disconnect", "")
            /\ UNCHANGED <<channels, invocations>>
    /\ UNCHANGED <<config, transport, toolCalls, catalog>>
    /\ CFrame

(* transport.close() has returned: the rest of disconnect() *)
CloseDone(i) ==
    /\ i \in invocations
    /\ i.op = "disconnect"
    /\ invocations' = invocations \ {i}
    /\ transport' = 0
    /\ metadata' = NoMetadata
    /\ toolsCache' = <<>>
    /\ ret' = Returned("disconnect", "")
    /\ UNCHANGED <<config, channels, toolCalls, catalog>>
    /\ CFrame

GetMetadata ==
    /\ ret' = IF ~isConnectedNow THEN Threw("getMetadata", "", NotConnectedMsg)
              ELSE [Returned("getMetadata", "") EXCEPT !.meta = metadata]
    /\ UNCHANGED <<config, transport, metadata, toolsCache, channels, invocations,
                   toolCalls, catalog>>
    /\ CFrame

ListTools ==
    /\ ret' = IF ~isConnectedNow THEN Threw("listTools", "", NotConnectedMsg)
              ELSE [Returned("listTools", "") EXCEPT !.tools = listTools(toolsCache)]
    /\ UNCHANGED <<config, transport, metadata, toolsCache, channels, invocations,
                   toolCalls, catalog>>
    /\ CFrame

GetToolSchema(n) ==
    /\ ret' = IF ~isConnectedNow THEN Threw("getToolSchema", n, NotConnectedMsg)
              ELSE IF ~getToolSchema(toolsCache, n).ok
              THEN Threw("getToolSchema", n, getToolSchema(toolsCache, n).msg)
              ELSE [Returned("getToolSchema", n) EXCEPT
                        !.tools = getToolSchema(toolsCache, n).tools]
    /\ UNCHANGED <<config, transport, metadata, toolsCache, channels, invocations,
                   toolCalls, catalog>>
    /\ CFrame

(* variant: a callTool that refuses names missing from the cache *)
Forwardable_Cached(n) == channels[transport].st # "closed" /\ Find(toolsCache, n) # 0

(* client.callTool sends on a transport that has not been closed *)
Forwardable(n) == channels[transport].st # "closed"

(* callTool(n) up to `await this.client.callTool(...)`; the daemon's       *)
(* `call` action with a tool name is this call                             *)
CallTool(n) ==
    /\ IF ~isConnectedNow
       THEN /\ ret' = Threw("callTool", n, NotConnectedMsg)
            /\ UNCHANGED <<channels, toolCalls>>
       ELSE IF ~Forwardable(n)
       THEN /\ ret' = Threw("callTool", n, <<"Not connected">>)
            /\ UNCHANGED <<channels, toolCalls>>
       ELSE /\ CallsForwarded < MaxToolCalls
            /\ channels' = [channels EXCEPT ![transport].callsSent = @ + 1]
            /\ toolCalls' = toolCalls \cup {ToolCall(CallsForwarded + 1, n, transport)}
            /\ ret' = Awaiting("callTool", n)
    /\ UNCHANGED <<config, transport, metadata, toolsCache, invocations, catalog>>
    /\ CFrame

(* the provider answers a call request, or the channel it was sent on      *)
(* closes first                                                            *)
CallSettled(c, ok) ==
    /\ c \in toolCalls
    /\ ok => channels[c.ch].st # "closed"
    /\ toolCalls' = toolCalls \ {c}
    /\ ret' = IF ok THEN [Returned("callTool", c.name) EXCEPT !.result = c.id]
              ELSE Threw("callTool", c.name, <<"call failed">>)
    /\ UNCHANGED <<config, transport, metadata, toolsCache, channels, invocations, catalog>>
    /\ CFrame

(* the provider's tool list changes *)
ProviderChange(cat) ==
    /\ cat # catalog
    /\ catalog' = cat
    /\ UNCHANGED <<config, transport, metadata, toolsCache, channels, invocations,
                   toolCalls, ret>>
    /\ CFrame

(* The switch of handleSocketRequest for a session whose client is this    *)
(* one: what `metadata`, `list`, `schema` and a `call` without tool        *)
(* answer.  tool is NoField when the request has no tool field.            *)
PerServer(action, tool) ==
    CASE action = "metadata" ->
           IF metadata = NoMetadata
           THEN Threw("metadata", "", <<"Metadata not available">>)
           ELSE [Returned("metadata", "") EXCEPT !.meta = metadata]
      [] action = "list" ->
           IF ~isConnectedNow THEN Threw("list", "", NotConnectedMsg)
           ELSE [Returned("list", "") EXCEPT !.tools = listTools(toolsCache)]
      [] action = "schema" ->
           IF tool = NoField THEN Threw("schema", tool, <<"Tool name is required for schema">>)
           ELSE IF ~isConnectedNow \/ ~getToolSchema(toolsCache, tool).ok
           THEN Threw("schema", tool, <<"Tool '", tool, "' not found">>)
           ELSE [Returned("schema", tool) EXCEPT !.tools = getToolSchema(toolsCache, tool).tools]
      [] action = "call" -> Threw("call", tool, <<"Tool name is required for call">>)

Request(action, tool) ==
    /\ ret' = PerServer(action, tool)
    /\ UNCHANGED <<config, transport, metadata, toolsCache, channels, invocations,
                   toolCalls, catalog>>
    /\ CFrame

CNext ==
    \/ CConnect
    \/ \E i \in invocations, ok \in BOOLEAN : HandshakeDone(i, ok)
    \/ \E i \in invocations, ok \in BOOLEAN : ListDone(i, ok)
    \/ CDisconnect
    \/ \E i \in invocations : CloseDone(i)
    \/ GetMetadata
    \/ ListTools
    \/ \E n \in ToolNames : GetToolSchema(n)
    \/ \E n \in ToolNames : CallTool(n)
    \/ \E c \in toolCalls, ok \in BOOLEAN : CallSettled(c, ok)
    \/ \E cat \in Catalogs : ProviderChange(cat)
    \/ \E action \in {"metadata", "list", "schema"}, tool \in ToolNames \cup {NoField} :
          Request(action, tool)
    \/ Request("call", NoField)

InitClient == CInit /\ DIdle /\ AIdle /\ SIdle /\ PIdle /\ KIdle /\ FIdle /\ LIdle /\ lastOp = Op("init", "", FALSE)

SpecClient == InitClient /\ [][CNext]_vars

(***************************************************************************)
(* One StdioTransport and the children it spawns (SpecStdio), on a POSIX   *)
(* platform.  One tick of ptime is one second.                             *)
(***************************************************************************)
MaxChildren == 2     \* children spawned by one adapter in one run
MaxStdioTime == 3    \* last value of the adapter's clock (seconds)

GracePeriod == 2     \* setTimeout(..., 2000)

Child == [alive |-> TRUE, killed |-> FALSE, signals |-> {}]

(* subprocess.kill(sig): delivered, and .killed set, when the child has    *)
(* not exited                                                              *)
Kill(ch, k, sig) ==
    IF ch[k].alive
    THEN [ch EXCEPT ![k].killed = TRUE, ![k].signals = @ \cup {sig}]
    ELSE ch

GraceTimer(k, t) == [child |-> k, due |-> t]

PFrame == UNCHANGED <<dvars, avars, svars, cvars, kvars, fvars, lvars>>

PInit ==
    /\ process = 0
    /\ children = <<>>
    /\ graceTimers = {}
    /\ ptime = 0

(* connect(): spawn, unless this.process is set *)
PConnect ==
    /\ IF process # 0
       THEN UNCHANGED <<process, children>>
       ELSE /\ Len(children) < MaxChildren
            /\ children' = Append(children, Child)
            /\ process' = Len(children) + 1
    /\ lastOp' = Op("spawn", "", process = 0)
    /\ UNCHANGED <<graceTimers, ptime>>
    /\ PFrame

(* disconnect(): SIGTERM, arm the grace timer, let the child's exit clear  *)
(* it, drop the reference                                                  *)
PDisconnect ==
    /\ IF process # 0
       THEN /\ children' = Kill(children, process, "SIGTERM")
            /\ graceTimers' = graceTimers \cup {GraceTimer(process, ptime + GracePeriod)}
            /\ process' = 0
       ELSE UNCHANGED <<process, children, graceTimers>>
    /\ lastOp' = Op("disconnect", "", process # 0)
    /\ UNCHANGED ptime
    /\ PFrame

(* the child exits: its 'exit' listeners run, clearTimeout among them *)
ChildExit(k) ==
    /\ k \in DOMAIN children
    /\ children[k].alive
    /\ children' = [children EXCEPT ![k].alive = FALSE]
    /\ graceTimers' = {tm \in graceTimers : tm.child # k}
    /\ lastOp' = Op("exit", "", FALSE)
    /\ UNCHANGED <<process, ptime>>
    /\ PFrame

(* the grace timer's callback:                                             *)
(*   if (this.process && !this.process.killed) this.process.kill('SIGKILL') *)
GraceDue(tm) ==
    /\ tm \in graceTimers
    /\ tm.due <= ptime
    /\ graceTimers' = graceTimers \ {tm}
    /\ children' = IF process # 0 /\ ~children[process].killed
                   THEN Kill(children, process, "SIGKILL")
                   ELSE children
    /\ lastOp' = Op("graceDue", "", children' # children)
    /\ UNCHANGED <<process, ptime>>
    /\ PFrame

(* a second passes; a timer that is due runs first *)
PTick ==
    /\ ptime < MaxStdioTime
    /\ \A tm \in graceTimers : tm.due > ptime
    /\ ptime' = ptime + 1
    /\ lastOp' = Op("tick", "", FALSE)
    /\ UNCHANGED <<process, children, graceTimers>>
    /\ PFrame

PNext ==
    \/ PConnect
    \/ PDisconnect
    \/ \E k \in 1..MaxChildren : ChildExit(k)
    \/ \E tm \in graceTimers : GraceDue(tm)
    \/ PTick

InitStdio == PInit /\ DIdle /\ AIdle /\ SIdle /\ CIdle /\ KIdle /\ FIdle /\ LIdle /\ lastOp = Op("init", "", FALSE)

SpecStdio == InitStdio /\ [][PNext]_vars

(***************************************************************************)
(* Properties of the daemon (Spec).                                        *)
(***************************************************************************)
Range(q) == {q[i] : i \in DOMAIN q}

(* the session's provider connection is up: connect() returned and no     *)
(* disconnect() has been started on it                                     *)
ConnectedIn(C, c) == C[c].conn = "done" /\ C[c].transport /\ ~C[c].closing

Connected(c) == ConnectedIn(clients, c)

Tracked(c) == \E n \in DOMAIN sessions : sessions[n].client = c

(* what `metadata` routed to n answers: success:true *)
RouteMetadataOk(n) ==
    n \in DOMAIN sessions /\ getCachedMetadata(clients[sessions[n].client])

(* C1: once the latest reload has been answered (and no other reload is in *)
(* progress), every name that still resolves to a session resolves to one  *)
(* connected during that reload; no session connected before it is left.   *)
C1_NoStaleSessionAfterReload ==
    \A r \in 1..MaxReloads :
        (r = nReloads /\ procs[r].pc = "done" /\ ~ReloadInProgress)
            => \A n \in DOMAIN sessions : sessions[n].client >= procs[r].firstClient

(* C2: while a reload is in progress no per-server request is dispatched   *)
(* to a session.                                                           *)
C2_NoDispatchDuringReload ==
    ~(lastOp.op = "route" /\ lastOp.hit /\ ReloadInProgress)

(* C3: after bootstrap (and before any reload) every configured name has   *)
(* been tried whatever happened to the names before it, `metadata` routed  *)
(* to it succeeds exactly when its connect succeeded, and a name whose     *)
(* connect failed has no session, so requests to it get the routing error. *)
ConnectSucceeded(n) == \E c \in DOMAIN clients : clients[c].name = n /\ clients[c].conn = "done"

C3_BootstrapRouting ==
    (phase = "running" /\ nReloads = 0) =>
        \A n \in DOMAIN serverConfigs :
            /\ n \in Range(procs[0].reconnected) \cup procs[0].failed
            /\ RouteMetadataOk(n) <=> ConnectSucceeded(n)
            /\ ~ConnectSucceeded(n) => n \notin DOMAIN sessions

C3_Witness ==
    /\ phase = "running" /\ nReloads = 0
    /\ "a" \in DOMAIN serverConfigs /\ ~ConnectSucceeded("a")
    /\ lastOp = Op("route", "b", TRUE)
    /\ RouteMetadataOk("b")

SweepStep == lastOp'.op = "sweep"

IdleTime(n) == now - sessions[n].lastActivityAt

(* C4: an idle sweep leaves every session whose name is in the server      *)
(* configuration in the registry, untouched and connected, however long    *)
(* it has been idle.                                                       *)
C4_SweepKeepsConfigured ==
    [][SweepStep =>
          \A n \in DOMAIN sessions \cap DOMAIN serverConfigs :
              /\ n \in DOMAIN sessions'
              /\ sessions'[n] = sessions[n]
              /\ clients'[sessions[n].client] = clients[sessions[n].client]]_vars

C4_Witness ==
    /\ lastOp.op = "sweep"
    /\ \E n \in DOMAIN sessions \cap DOMAIN serverConfigs :
          /\ IdleTime(n) > IDLE_TIMEOUT
          /\ Connected(sessions[n].client)

(* C5: a sweep removes from the registry, and starts the disconnect of,    *)
(* every dynamic session idle for more than the threshold, and keeps every *)
(* dynamic session idle for the threshold or less; a routed request stamps *)
(* the session's lastActivityAt with the current time.                     *)
C5_SweepEvictsIdleDynamic ==
    [][/\ SweepStep =>
            \A n \in DOMAIN sessions \ DOMAIN serverConfigs :
                /\ IdleTime(n) > IDLE_TIMEOUT =>
                      /\ n \notin DOMAIN sessions'
                      /\ ~ConnectedIn(clients', sessions[n].client)
                /\ IdleTime(n) <= IDLE_TIMEOUT =>
                      /\ n \in DOMAIN sessions'
                      /\ sessions'[n] = sessions[n]
                      /\ clients'[sessions[n].client] = clients[sessions[n].client]
       /\ (lastOp'.op = "route" /\ lastOp'.hit) =>
            sessions'[lastOp'.name].lastActivityAt = now]_vars

C5_Witness ==
    /\ lastOp = Op("sweep", "", TRUE)
    /\ \E n \in DOMAIN sessions \ DOMAIN serverConfigs : IdleTime(n) = IDLE_TIMEOUT

(* C6: never are two provider sessions of one name connected at once, one  *)
(* tracked in the registry and the other not.                              *)
C6_OneSessionPerName ==
    \A c1, c2 \in DOMAIN clients :
        ~(/\ clients[c1].name = clients[c2].name
          /\ Connected(c1) /\ Tracked(c1)
          /\ Connected(c2) /\ ~Tracked(c2))

(***************************************************************************)
(* Properties of the correlators (SpecAdapter).                            *)
(***************************************************************************)
Age(id) == tnow - calls[id].sentAt

(* C7: a call made on an adapter after its channel closed unexpectedly is  *)
(* answered with a failure; it does not stay pending past every deadline.  *)
C7_CallAfterCloseFails ==
    kind \in Adapters =>
        \A id \in DOMAIN calls :
            calls[id].afterLoss => ~(calls[id].st = "pending" /\ Age(id) > RequestTimeout)

(* C8: once the channel has closed unexpectedly the adapter reports not    *)
(* connected, its pending table is empty and every call that was           *)
(* outstanding has failed with the channel-closed error.                   *)
C8_ChannelLossFailsAll ==
    (kind \in Adapters /\ link = "lost") =>
        /\ ~TransportIsConnected(kind, link)
        /\ pendingRequests = {}
        /\ \A id \in DOMAIN calls :
              calls[id].atLoss => (calls[id].st = "rejected" /\ calls[id].res = "closed")

(* C9: a call sent on a connected adapter is not pending once its deadline *)
(* has passed: it was resolved or failed with the timeout error.           *)
C9_EveryCallSettles ==
    (kind \in Adapters /\ link = "open") =>
        \A id \in DOMAIN calls :
            (calls[id].st = "pending" /\ ~calls[id].atLoss) => Age(id) <= RequestTimeout

(* the call's entry is still registered with the correlator *)
RECURSIVE InChain(_, _)
InChain(h, id) == h # 0 /\ (h = id \/ InChain(calls[h].orig, id))

Registered(id) ==
    IF HasPendingMap(kind) THEN id \in pendingRequests ELSE InChain(onmessage, id)

(* C10: a call that resolved did so with the result of the response        *)
(* carrying its own id, and no registered call is still unresolved after   *)
(* its response was handed over, whatever the order of the responses.      *)
C10_ResponsesPairedById ==
    \A id \in DOMAIN calls :
        /\ calls[id].st = "resolved" => calls[id].res = calls[id].arg
        /\ id \in delivered => ~(calls[id].st = "pending" /\ Registered(id))

(* the correlator holds an entry that a response with this id matches *)
Matches(id) ==
    CASE HasPendingMap(kind) -> id \in pendingRequests
      [] kind = "http" -> id \in timers
      [] OTHER -> onmessage = id

DeliverStep == lastOp'.op = "deliver"

(* C11: a response whose id matches no pending call (a late response to a  *)
(* call that timed out included) settles no call and leaves the pending    *)
(* table as it was.                                                        *)
C11_UnmatchedResponseDiscarded ==
    [][(DeliverStep /\ kind \in Adapters) =>
          \A id \in delivered' \ delivered :
              ~Matches(id) => (calls' = calls /\ pendingRequests' = pendingRequests)]_vars

C11_Witness ==
    /\ kind = "sse"
    /\ lastOp.op = "deliver" /\ ~lastOp.hit
    /\ pendingRequests # {}
    /\ \E id \in delivered : calls[id].res = "timeout"

(* C12: a deliberate disconnect fails every call outstanding on the        *)
(* adapter with the channel-closed error; none is only dropped from the    *)
(* pending table and left pending.                                         *)
C12_TeardownFailsOutstanding ==
    [][(lastOp'.op = "disconnect" /\ kind \in Adapters) =>
          \A id \in DOMAIN calls :
              calls[id].st = "pending" =>
                  (calls'[id].st = "rejected" /\ calls'[id].res = "closed")]_vars

(***************************************************************************)
(* Properties of the socket front-end (SpecSocket).                        *)
(***************************************************************************)
Count(q, x) == Cardinality({i \in DOMAIN q : q[i] = x})

(* nothing of the connection is left to process or to answer *)
Quiescent(c) == inbuf[c] = <<>> /\ \A h \in running : h.conn # c

CommandIds(c) == {cmds[c][i] : i \in DOMAIN cmds[c]} \ {Null}

(* this step handed a response to socket.write *)
Responds == lastResp' # lastResp /\ lastResp'.t = "resp"

(* C13: no command is answered more than once, and once a connection has   *)
(* nothing left in progress every command sent on it has got exactly one   *)
(* response line carrying its own id.                                      *)
C13_ExactlyOneResponse ==
    \A c \in Conns :
        /\ \A id \in CommandIds(c) : Count(answers[c], id) <= Count(cmds[c], id)
        /\ Quiescent(c) =>
              \A id \in CommandIds(c) : Count(answers[c], id) = Count(cmds[c], id)

ThrownTags == {"NotConnected", "CallFailed", "CannotLoadConfig"}

(* C14: an error thrown by a command's handler is answered on the          *)
(* connection as {id, success:false, error} with the command's id, and     *)
(* the daemon keeps running.                                               *)
C14_ErrorsAnsweredWithId ==
    (lastResp.t = "resp" /\ lastResp.req.t = "cmd" /\ lastResp.resp.tag \in ThrownTags) =>
        /\ lastResp.resp.id = lastResp.req.id
        /\ ~lastResp.resp.success
        /\ lastResp.written
        /\ phase = "running"

(* C15: the step that handles a malformed line dispatches nothing (the     *)
(* registry and the suspended handlers are as before) and leaves the       *)
(* connection open; and no line ever sits in a buffer with neither a       *)
(* running loop nor a suspended handler to come back for it, so the lines  *)
(* after a malformed one are still processed.                              *)
JunkStep == lastResp' # lastResp /\ lastResp'.t = "resp" /\ lastResp'.req.t = "junk"

NoLineStranded ==
    \A c \in Conns :
        (phase = "running" /\ inbuf[c] # <<>>) =>
            (loops[c] > 0 \/ \E h \in running : h.conn = c)

C15_MalformedLineNotFatal ==
    [][/\ JunkStep => /\ dvars' = dvars
                      /\ running' = running
                      /\ conn' = conn
                      /\ ~lastResp'.resp.success
       /\ NoLineStranded']_vars

C15_Witness ==
    \E c \in Conns :
        /\ conn[c] = "open"
        /\ cmds[c] = <<Null, "2">>
        /\ answers[c] = <<Null, "2">>
        /\ lastResp.t = "resp" /\ lastResp.req.t = "cmd" /\ lastResp.resp.success

(* C16: a per-server action addressed to a name with no session is         *)
(* answered success:false with an error that names every session          *)
(* currently in the registry, and the registry is left unchanged.          *)
C16_NotFoundListsNames ==
    [][(Responds /\ lastResp'.resp.tag = "ServerNotFound"
                /\ lastResp'.req.action \in PerServerActions \ {"sessions"}) =>
          /\ ~lastResp'.resp.success
          /\ sessions' = sessions
          /\ DOMAIN sessions \subseteq lastResp'.resp.names]_vars

(* C17: ping is answered {id, success:true, data} with exactly the names   *)
(* of the sessions in the registry, whatever its server field, and changes *)
(* nothing of the registry.                                                *)
PingAnswer ==
    \A id \in {"1", ""}, n \in Names \cup {NoField} :
        LET R == handleSocketRequest(Cmd(id, "ping", n, NoField, CfgEmpty),
                                     sessions, clients, now)
        IN /\ R.k = "return"
           /\ R.resp = Resp(id, TRUE, "pong", DOMAIN sessions)
           /\ R.s = sessions

PingStep == Responds /\ lastResp'.req.t = "cmd" /\ lastResp'.req.action = "ping"

C17_PingListsSessions ==
    /\ []PingAnswer
    /\ [][PingStep => /\ dvars' = dvars
                      /\ lastResp'.resp.success
                      /\ lastResp'.resp.id = lastResp'.req.id
                      /\ lastResp'.resp.names = DOMAIN sessions]_vars

C17_Witness ==
    /\ lastResp.t = "resp" /\ lastResp.req.t = "cmd"
    /\ lastResp.req.action = "ping" /\ lastResp.written
    /\ lastResp.resp.names = {"a"}
    /\ sessions["a"].lastActivityAt < now

(* C18: `sessions` sent without a server field succeeds and returns every  *)
(* session in the registry.                                                *)
C18_SessionsNeedsNoServer ==
    [][(Responds /\ lastResp'.req.t = "cmd" /\ lastResp'.req.action = "sessions"
                /\ lastResp'.req.server = NoField) =>
          /\ lastResp'.resp.success
          /\ lastResp'.resp.names = DOMAIN sessions]_vars

(* C19: at the step where a `shutdown` command's stop() completes, every   *)
(* session in the registry is disconnected, the listener is closed and the *)
(* pid file and socket/port file are gone.                                 *)
ShutdownCompletes == lastOp' # lastOp /\ lastOp'.op = "stopped" /\ ~lastOp'.hit

C19_ShutdownLeavesNothing ==
    [][ShutdownCompletes =>
          /\ \A n \in DOMAIN sessions' : ~isConnected(clients'[sessions'[n].client])
          /\ ~listening'
          /\ ~artifacts']_vars

(* The daemon's own steps: everything but a caller connecting or sending   *)
(* a line and the operator's signal.                                       *)
DaemonStep ==
    \/ \E c \in Conns : ProcessImmediate(c)
    \/ \E c \in Conns : BeginCall(c)
    \/ \E h \in running, ok \in BOOLEAN : CallDone(h, ok)
    \/ \E c \in Conns : BeginReload(c)
    \/ \E h \in running : ReloadDone(h)
    \/ \E c \in Conns : BeginShutdown(c)
    \/ \E h \in running : StopCloseServer(h)
    \/ ConnClose
    \/ \E h \in running : StopFinish(h)
    \/ \E p \in 1..MaxReloads : ConnectOk(p)
    \/ \E p \in 1..MaxReloads : ConnectFail(p)
    \/ \E p \in 1..MaxReloads : DisconnectResume(p)
    \/ \E c \in DOMAIN clients : DisconnectDone(c)

SpecSocketFair == InitSocket /\ [][SNext]_vars /\ WF_vars(DaemonStep)

ShutdownCommanded == \E h \in running : h.op = "shutdown" /\ h.conn # 0

(* C20: once a `shutdown` command is being handled, the daemon process     *)
(* eventually terminates.                                                  *)
C20_ShutdownTerminates == ShutdownCommanded ~> (phase = "exited")

(* the names tracked when the reload answered by this step was taken up *)
NamesBefore ==
    UNION {{clients[c].name : c \in h.x.waiting} : h \in {g \in running \ running' : g.op = "reload"}}

ReloadAnswered ==
    /\ Responds
    /\ lastResp'.req.t = "cmd" /\ lastResp'.req.action = "reload"
    /\ lastResp'.resp.success

(* C21: the response to a reload reports the names tracked before the      *)
(* reload and the names tracked after it.  The response carries one list   *)
(* of names, so it reports a list exactly when that list is the one        *)
(* carried.                                                                *)
C21_ReloadReportsBeforeAfter ==
    [][ReloadAnswered => /\ lastResp'.resp.names = NamesBefore
                         /\ lastResp'.resp.names = DOMAIN sessions']_vars

(***************************************************************************)
(* Properties of the client (SpecClient).                                  *)
(***************************************************************************)
(* connect() has returned on the current transport and no disconnect()     *)
(* has been started on it                                                  *)
SessionConnected ==
    /\ transport # 0
    /\ channels[transport].ready
    /\ channels[transport].st = "open"

(* the step is a call of op (not the settling of an earlier one): ret      *)
(* shows op and no suspended call has gone                                 *)
Calls(op) ==
    /\ ret' # ret
    /\ ret'.op = op
    /\ invocations \subseteq invocations'
    /\ toolCalls \subseteq toolCalls'

CacheReads == {"getMetadata", "listTools", "getToolSchema", "metadata", "list", "schema"}

(* C22: a transport carries at most one catalog-list request, exactly one  *)
(* once its connect has returned; the cached catalog changes only when     *)
(* that request is answered or a disconnect clears it; metadata, list and  *)
(* schema reads send nothing and change no cache, and a call changes no    *)
(* cache.                                                                  *)
OneListPerChannel ==
    \A k \in DOMAIN channels :
        /\ channels[k].lists <= 1
        /\ channels[k].ready => channels[k].lists = 1

C22_CatalogFetchedOnce ==
    /\ []OneListPerChannel
    /\ [][ /\ toolsCache' # toolsCache =>
               \/ toolsCache' = <<>>
               \/ \E i \in invocations \ invocations' : i.op = "connect" /\ i.pc = "listing"
           /\ (\E op \in CacheReads : Calls(op)) =>
               /\ channels' = channels /\ toolCalls' = toolCalls
               /\ toolsCache' = toolsCache /\ metadata' = metadata
           /\ ret'.op = "callTool" /\ ret' # ret =>
               /\ toolsCache' = toolsCache /\ metadata' = metadata
               /\ \A k \in DOMAIN channels : channels'[k].lists = channels[k].lists]_vars

C22_Witness ==
    /\ SessionConnected
    /\ toolsCache # catalog
    /\ ret.op = "list" /\ ret.k = "ok" /\ ret.tools = listTools(toolsCache)
    /\ channels[transport].lists = 1
    /\ channels[transport].callsSent = 1

(* C23: listTools gives one {name, description} entry per cached entry, in *)
(* cache order; getToolSchema(n) succeeds exactly when listTools has an    *)
(* entry named n, and then returns a cached entry named n whole.           *)
Projection(cache) ==
    LET L == listTools(cache) IN
    /\ Len(L) = Len(cache)
    /\ \A i \in DOMAIN cache :
          /\ DOMAIN L[i] = {"name", "description"}
          /\ L[i].name = cache[i].name
          /\ L[i].description = cache[i].description
    /\ \A n \in ToolNames \cup {"u"} :
          LET R == getToolSchema(cache, n) IN
          /\ (R.ok <=> (\E i \in DOMAIN L : L[i].name = n))
          /\ (R.ok => (/\ Len(R.tools) = 1
                       /\ \E i \in DOMAIN cache : cache[i] = R.tools[1] /\ cache[i].name = n))

C23_ListAndSchemaProjectCache ==
    /\ [](Projection(toolsCache) /\ \A cat \in Catalogs : Projection(cat))
    /\ [][ /\ (Calls("listTools") /\ SessionConnected) =>
               (ret'.k = "ok" /\ ret'.tools = listTools(toolsCache))
           /\ (Calls("getToolSchema") /\ SessionConnected) =>
               /\ ((ret'.k = "ok") <=> (\E i \in DOMAIN toolsCache : toolsCache[i].name = ret'.arg))
               /\ ((ret'.k = "ok") => ret'.tools = getToolSchema(toolsCache, ret'.arg).tools)]_vars

C23_Witness ==
    /\ SessionConnected
    /\ Len(toolsCache) = 3
    /\ ret.op = "getToolSchema" /\ ret.k = "ok" /\ ret.arg = "t"
    /\ ret.tools = <<Tool("t", "d1", "s1")>>

(* C24: a schema request for a name that is not in the cached catalog of a *)
(* connected session fails with the message `Tool not found: <name>`, from *)
(* getToolSchema and from the daemon's schema action alike.                *)
C24_ToolNotFoundMessage ==
    [][\A op \in {"getToolSchema", "schema"} :
          (/\ Calls(op)
           /\ SessionConnected
           /\ ret'.arg \in ToolNames
           /\ Find(toolsCache, ret'.arg) = 0) =>
              (ret'.k = "err" /\ ret'.msg = <<"Tool not found: ", ret'.arg>>)]_vars

(* C25: until connect() has returned on the current transport, and after   *)
(* disconnect, the three reads and callTool fail.                          *)
C25_NotConnectedFails ==
    [][\A op \in {"getMetadata", "listTools", "getToolSchema", "callTool"} :
          (Calls(op) /\ (transport = 0 \/ ~channels[transport].ready)) =>
              ret'.k = "err"]_vars

(* C26: connect() on a connected session returns without error and changes *)
(* nothing: no transport is made, no handshake or list request sent.       *)
C26_ConnectIdempotent ==
    [][(Calls("connect") /\ SessionConnected) =>
          /\ ret'.k = "ok"
          /\ channels' = channels
          /\ transport' = transport
          /\ invocations' = invocations
          /\ metadata' = metadata
          /\ toolsCache' = toolsCache]_vars

C26_Witness ==
    /\ SessionConnected
    /\ ret = Returned("connect", "again")
    /\ Len(channels) = 1
    /\ channels[1].inits = 1 /\ channels[1].lists = 1

(* C27: when disconnect() returns, isConnected is false and the cached     *)
(* metadata and catalog are cleared; a connect() after it makes a new      *)
(* transport, and what that connect caches was fetched on that transport.  *)
DisconnectReturns == ret' # ret /\ ret' = Returned("disconnect", "")

FreshCache ==
    SessionConnected =>
        /\ metadata.ch = transport
        /\ channels[transport].inits = 1
        /\ channels[transport].lists = 1

C27_DisconnectClears ==
    /\ []FreshCache
    /\ [][ /\ DisconnectReturns =>
               (~isConnectedNow' /\ metadata' = NoMetadata /\ toolsCache' = <<>>)
           /\ (Calls("connect") /\ ~isConnectedNow /\ ret'.k = "await") =>
               /\ Len(channels') = Len(channels) + 1
               /\ transport' = Len(channels')
               /\ channels'[transport'] = NewChannel(channels'[transport'].type)]_vars

C27_Witness ==
    /\ SessionConnected
    /\ transport = 2
    /\ channels[1].ready /\ channels[1].st = "closed"
    /\ metadata = Meta(2)
    /\ toolsCache = catalog

(* C28: callTool on a connected session sends one call request on the      *)
(* session's transport, whatever the cache holds, and what it returns is   *)
(* the provider's answer to that request.                                  *)
C28_CallAlwaysForwarded ==
    [][/\ (Calls("callTool") /\ SessionConnected /\ CallsForwarded < MaxToolCalls) =>
           /\ ret'.k = "await"
           /\ channels'[transport].callsSent = channels[transport].callsSent + 1
           /\ \E c \in toolCalls' \ toolCalls :
                 /\ toolCalls' = toolCalls \cup {c}
                 /\ c.name = ret'.arg /\ c.ch = transport
           /\ toolsCache' = toolsCache
       /\ (ret' # ret /\ ret'.op = "callTool" /\ ret'.k = "ok") =>
           \E c \in toolCalls \ toolCalls' :
               /\ ret'.result = c.id /\ ret'.arg = c.name
               /\ channels[c.ch].callsSent >= 1]_vars

C28_Witness ==
    /\ SessionConnected
    /\ Find(toolsCache, "v") = 0
    /\ ret.op = "callTool" /\ ret.arg = "v" /\ ret.k = "ok" /\ ret.result = 2
    /\ channels[transport].callsSent = 2

(* C29: connect() with a configuration that lacks the parameter its kind   *)
(* requires throws a configuration error; no transport is ever made and    *)
(* the client stays not connected.                                         *)
LacksParameter(cfg) ==
    \/ InferType(cfg) = "stdio" /\ ~cfg.command
    \/ InferType(cfg) \in {"http", "sse"} /\ ~cfg.url

C29_MissingParameterFails ==
    /\ [](LacksParameter(config) => (channels = <<>> /\ ~isConnectedNow /\ invocations = {}))
    /\ [][(Calls("connect") /\ LacksParameter(config)) =>
              /\ ret'.k = "err"
              /\ ret'.msg \in {<<"stdio transport requires command parameter">>,
                                <<"http transport requires url parameter">>,
                                <<"sse transport requires url parameter">>}]_vars

C29_Witness ==
    /\ LacksParameter(config)
    /\ config.type = "http"
    /\ ret.op = "connect" /\ ret.k = "err"
    /\ ret.msg = <<"http transport requires url parameter">>

(***************************************************************************)
(* Properties of the spawned-process adapter (SpecStdio).                  *)
(***************************************************************************)
(* the grace timer armed by the disconnect of child k runs in this step *)
GraceRuns(k) ==
    /\ \E tm \in graceTimers \ graceTimers' : tm.child = k
    /\ children'[k].alive = children[k].alive

ForceKilled(k) == "SIGKILL" \in children'[k].signals \ children[k].signals

(* C30: disconnect sends a running child SIGTERM; when its grace timer     *)
(* runs and the child has not exited, that child is sent SIGKILL; SIGKILL  *)
(* is sent only by the grace timer of the child that receives it, and only *)
(* to a child that has not exited.                                         *)
C30_GraceThenForceKill ==
    [][/\ (lastOp'.op = "disconnect" /\ process # 0 /\ children[process].alive) =>
           "SIGTERM" \in children'[process].signals
       /\ \A k \in DOMAIN children :
           /\ (GraceRuns(k) /\ children[k].alive) => ForceKilled(k)
           /\ ForceKilled(k) => (GraceRuns(k) /\ children[k].alive)]_vars

(***************************************************************************)
(* SocketClient (the caller's end of the daemon socket) under              *)
(* MCPClient.sendCommand.                                                  *)
(*                                                                         *)
(* A socket is "connecting", "open", "closing" (destroyed, failed or ended *)
(* by the peer; its 'close' event is still to come) or "closed".           *)
(* handlers counts the setupSocket() calls that attached to it, ctimer is  *)
(* the 5 s timer of the connect() that created it.                         *)
(* A message is a sequence of fragments; String.includes looks for a       *)
(* fragment.                                                               *)
(***************************************************************************)
MaxSends == 2        \* send() calls made on one SocketClient

FailedToConnect == "Failed to connect to daemon"

Includes(m, frag) == \E i \in 1..Len(m) : m[i] = frag

Err(cls, detail, message) == [cls |-> cls, detail |-> detail, message |-> message]

NoErr == Err("none", <<>>, <<>>)

DaemonNotRunningError == Err("DaemonNotRunningError", <<>>, <<"MCP daemon is not running">>)

ConnectionFailedError(detail) ==
    Err("ConnectionFailedError", detail, <<FailedToConnect, ": ">> \o detail)

PlainError(message) == Err("Error", <<>>, message)

(* what the daemon answers: success, or success:false with an error text *)
Body(ok, error) == [success |-> ok, error |-> error]

NoBody == Body(FALSE, <<>>)

Bodies == {Body(TRUE, <<>>), Body(FALSE, <<"Server 'x' not found">>), Body(FALSE, <<>>)}

(* how a send() ended: "resolved" with a response, or rejected *)
Outcome(k, rid, body, message) == [k |-> k, rid |-> rid, body |-> body, message |-> message]

Unsettled == Outcome("none", 0, NoBody, <<>>)

Rejected(k, message) == Outcome(k, 0, NoBody, message)

(* MCPClient.sendCommand: what it throws for an outcome of send()          *)
(* (NoErr: it returns response.data)                                       *)
sendCommand(o) ==
    LET thrown == IF o.k = "resolved"
                  THEN IF o.body.success THEN NoErr
                       ELSE ConnectionFailedError(IF o.body.error # <<>> THEN o.body.error
                                                  ELSE <<"Unknown error">>)
                  ELSE PlainError(o.message)
    IN IF thrown = NoErr THEN NoErr
       ELSE IF Includes(thrown.message, FailedToConnect) THEN DaemonNotRunningError
       ELSE IF thrown.cls = "ConnectionFailedError" THEN thrown
       ELSE ConnectionFailedError(thrown.message)

KSock(st, handlers, ctimer) == [st |-> st, handlers |-> handlers, ctimer |-> ctimer]

(* a send() call: pc is "connect" (awaiting connect()), "pending" or       *)
(* "settled"; sock the socket its connect() created or its write went to;  *)
(* early: it was called before any connection of this client was           *)
(* established; flushed: its write has left the socket                     *)
KSendRec(pc, id, sock, early, flushed, out) ==
    [pc |-> pc, id |-> id, sock |-> sock, early |-> early, flushed |-> flushed,
     out |-> out, raised |-> IF out.k = "none" THEN NoErr ELSE sendCommand(out)]

Established == \E s \in 1..Len(kSockets) : kSockets[s].st # "connecting"

KFrame == UNCHANGED <<dvars, avars, svars, cvars, pvars, fvars, lvars, lastOp>>

KInit ==
    /\ kSocket = 0
    /\ kConnected = FALSE
    /\ kSockets = <<>>
    /\ kRequestId = 0
    /\ kPending = {}
    /\ kTimers = {}
    /\ kSends = <<>>

(* resolve / reject of the promises of the sends in js: a promise settles  *)
(* at the first call only                                                  *)
KSettle(S, js, o) ==
    [j \in DOMAIN S |->
        IF j \in js /\ S[j].out.k = "none"
        THEN KSendRec("settled", S[j].id, S[j].sock, S[j].early, S[j].flushed, o)
        ELSE S[j]]

WithId(S, ids) == {j \in DOMAIN S : S[j].id \in ids}

(* variant: a response settles the oldest pending request *)
Lookup_Oldest(pending, rid) ==
    IF pending = {} THEN {} ELSE {CHOOSE i \in pending : \A k \in pending : i <= k}

(* handleResponse: this.pendingRequests.get(response.id) *)
Lookup(pending, rid) == pending \cap {rid}

(* send() after its connect: the id, the timer, the map entry, the write *)
Issue(S, j, early) ==
    [S EXCEPT ![j] = KSendRec("pending", kRequestId + 1, kSocket, early,
                              kSockets[kSocket].st = "open", Unsettled)]

(* send(): connect() first when not connected *)
KSend ==
    LET j == Len(kSends) + 1
        s == Len(kSockets) + 1
    IN /\ j <= MaxSends
       /\ IF ~kConnected \/ kSocket = 0
          THEN /\ kSockets' = Append(kSockets, KSock("connecting", 0, TRUE))
               /\ kSocket' = s
               /\ kSends' = Append(kSends, KSendRec("connect", 0, s, ~Established, FALSE, Unsettled))
               /\ UNCHANGED <<kConnected, kRequestId, kPending, kTimers>>
          ELSE /\ kSends' = Issue(Append(kSends, KSendRec("connect", 0, 0, FALSE, FALSE, Unsettled)),
                                  j, FALSE)
               /\ kRequestId' = kRequestId + 1
               /\ kPending' = kPending \cup {kRequestId + 1}
               /\ kTimers' = kTimers \cup {kRequestId + 1}
               /\ UNCHANGED <<kSocket, kConnected, kSockets>>
       /\ KFrame

AwaitingConnect(s) == {j \in DOMAIN kSends : kSends[j].pc = "connect" /\ kSends[j].sock = s}

(* 'connect' of socket s: connected = true, setupSocket() on this.socket,  *)
(* connect() resolves and the send that awaited it goes on                 *)
KConnected(s) ==
    /\ s \in DOMAIN kSockets
    /\ kSockets[s].st = "connecting"
    /\ kSocket # 0
    /\ kConnected' = TRUE
    /\ LET opened == [kSockets EXCEPT ![s].st = "open"]
       IN kSockets' = [opened EXCEPT ![kSocket].handlers = @ + 1]
    /\ LET flushed == [j \in DOMAIN kSends |->
                          IF kSends[j].pc = "pending" /\ kSends[j].sock = s
                          THEN [kSends[j] EXCEPT !.flushed = TRUE] ELSE kSends[j]]
       IN IF AwaitingConnect(s) = {}
          THEN /\ kSends' = flushed
               /\ UNCHANGED <<kRequestId, kPending, kTimers>>
          ELSE LET j == CHOOSE j \in AwaitingConnect(s) : TRUE
               IN /\ kSends' = [flushed EXCEPT ![j] =
                                  KSendRec("pending", kRequestId + 1, kSocket, kSends[j].early,
                                           kSocket = s \/ kSockets[kSocket].st = "open", Unsettled)]
                  /\ kRequestId' = kRequestId + 1
                  /\ kPending' = kPending \cup {kRequestId + 1}
                  /\ kTimers' = kTimers \cup {kRequestId + 1}
    /\ UNCHANGED kSocket
    /\ KFrame

(* 'error' of socket s: both error handlers set connected = false; while   *)
(* connecting, connect() rejects                                           *)
KSocketError(s) ==
    /\ s \in DOMAIN kSockets
    /\ kSockets[s].st \in {"connecting", "open"}
    /\ kConnected' = FALSE
    /\ kSockets' = [kSockets EXCEPT ![s].st = "closing"]
    /\ kSends' = KSettle(kSends, AwaitingConnect(s),
                        Rejected("connectFailed", <<FailedToConnect, ": ", "ECONNREFUSED">>))
    /\ UNCHANGED <<kSocket, kRequestId, kPending, kTimers>>
    /\ KFrame

(* the daemon ends the connection *)
KPeerEnd(s) ==
    /\ s \in DOMAIN kSockets
    /\ kSockets[s].st = "open"
    /\ kSockets' = [kSockets EXCEPT ![s].st = "closing"]
    /\ UNCHANGED <<kSocket, kConnected, kRequestId, kPending, kTimers, kSends>>
    /\ KFrame

(* the 5 s timer of connect(): if (!this.connected) destroy and reject *)
KConnectTimeout(s) ==
    /\ s \in DOMAIN kSockets
    /\ kSockets[s].ctimer
    /\ IF kConnected
       THEN /\ kSockets' = [kSockets EXCEPT ![s].ctimer = FALSE]
            /\ UNCHANGED kSends
       ELSE /\ kSockets' = [t \in DOMAIN kSockets |->
                              KSock(IF t = kSocket /\ kSockets[t].st \in {"connecting", "open"}
                                    THEN "closing" ELSE kSockets[t].st,
                                    kSockets[t].handlers,
                                    kSockets[t].ctimer /\ t # s)]
            /\ kSends' = KSettle(kSends, AwaitingConnect(s),
                                 Rejected("connectTimeout", <<"Connection timeout">>))
    /\ UNCHANGED <<kSocket, kConnected, kRequestId, kPending, kTimers>>
    /\ KFrame

(* 'close' of socket s: every handler set attached rejects what is pending *)
KClose(s) ==
    /\ s \in DOMAIN kSockets
    /\ kSockets[s].st = "closing"
    /\ kSockets' = [kSockets EXCEPT ![s].st = "closed"]
    /\ IF kSockets[s].handlers > 0
       THEN /\ kConnected' = FALSE
            /\ kSends' = KSettle(kSends, WithId(kSends, kPending),
                                Rejected("closed", <<"Connection closed">>))
            /\ kTimers' = kTimers \ kPending
            /\ kPending' = {}
       ELSE UNCHANGED <<kConnected, kSends, kTimers, kPending>>
    /\ UNCHANGED <<kSocket, kRequestId>>
    /\ KFrame

(* the callback of socket.write with an error: the write never left *)
KWriteError(j) ==
    /\ j \in DOMAIN kSends
    /\ kSends[j].pc \in {"pending", "settled"}
    /\ kSends[j].id # 0
    /\ ~kSends[j].flushed
    /\ kSockets[kSends[j].sock].st \in {"closing", "closed"}
    /\ kTimers' = kTimers \ {kSends[j].id}
    /\ kPending' = kPending \ {kSends[j].id}
    /\ kSends' = [KSettle(kSends, {j}, Rejected("writeError", <<"EPIPE">>)) EXCEPT ![j].flushed = TRUE]
    /\ UNCHANGED <<kSocket, kConnected, kSockets, kRequestId>>
    /\ KFrame

(* 'data' of socket s with one response line: handleResponse, once per     *)
(* handler set                                                             *)
KResponse(s, rid, body) ==
    /\ s \in DOMAIN kSockets
    /\ kSockets[s].st = "open"
    /\ kSockets[s].handlers > 0
    /\ LET hit == Lookup(kPending, rid)
       IN /\ kTimers' = kTimers \ hit
          /\ kPending' = kPending \ hit
          /\ kSends' = KSettle(kSends, WithId(kSends, hit), Outcome("resolved", rid, body, <<>>))
    /\ UNCHANGED <<kSocket, kConnected, kSockets, kRequestId>>
    /\ KFrame

(* the request timer of id *)
KTimeout(id) ==
    /\ id \in kTimers
    /\ kTimers' = kTimers \ {id}
    /\ kPending' = kPending \ {id}
    /\ kSends' = KSettle(kSends, WithId(kSends, {id}), Rejected("timeout", <<"Request timeout">>))
    /\ UNCHANGED <<kSocket, kConnected, kSockets, kRequestId>>
    /\ KFrame

(* disconnect(), called when no send is waiting for a connect *)
KDisconnect ==
    /\ kSocket # 0
    /\ \A j \in DOMAIN kSends : kSends[j].pc # "connect"
    /\ kSockets' = [kSockets EXCEPT ![kSocket].st =
                       IF @ \in {"connecting", "open"} THEN "closing" ELSE @]
    /\ kSocket' = 0
    /\ kConnected' = FALSE
    /\ kPending' = {}
    /\ UNCHANGED <<kRequestId, kTimers, kSends>>
    /\ KFrame

KNext ==
    \/ KSend
    \/ \E s \in 1..MaxSends : KConnected(s)
    \/ \E s \in 1..MaxSends : KSocketError(s)
    \/ \E s \in 1..MaxSends : KPeerEnd(s)
    \/ \E s \in 1..MaxSends : KConnectTimeout(s)
    \/ \E s \in 1..MaxSends : KClose(s)
    \/ \E j \in 1..MaxSends : KWriteError(j)
    \/ \E s \in 1..MaxSends, rid \in 0..MaxSends, body \in Bodies : KResponse(s, rid, body)
    \/ \E id \in 1..MaxSends : KTimeout(id)
    \/ KDisconnect

InitSocketClient ==
    KInit /\ DIdle /\ AIdle /\ SIdle /\ CIdle /\ PIdle /\ FIdle /\ LIdle /\ lastOp = Op("init", "", FALSE)

SpecSocketClient == InitSocketClient /\ [][KNext]_vars

(* every armed timer fires, every socket event that is due is delivered *)
SpecSocketClientFair ==
    /\ SpecSocketClient
    /\ \A id \in 1..MaxSends : WF_vars(KTimeout(id))
    /\ \A s \in 1..MaxSends : WF_vars(KConnected(s) \/ KSocketError(s))
    /\ \A s \in 1..MaxSends : WF_vars(KConnectTimeout(s))
    /\ \A s \in 1..MaxSends : WF_vars(KClose(s))

(***************************************************************************)
(* The 'data' handler of one daemon connection, byte by byte               *)
(* (handleSocketConnection).  A byte is NL, SP, a one-byte character of a  *)
(* well-formed record (Ch), a one-byte character no JSON text contains     *)
(* (Bad), or the lead or trail byte of a two-byte character.  The caller's *)
(* stream is well-formed UTF-8 and reaches the daemon in chunks cut        *)
(* anywhere; every chunk is decoded by itself (data.toString()) and starts *)
(* a run of the async handler, and all runs share the one buffer.  The     *)
(* buffer holds characters: NL, SP, Ch, Bad, Wide (the two-byte character) *)
(* and Repl (U+FFFD, what the decoder puts for bytes that are no           *)
(* character).                                                             *)
(***************************************************************************)
MaxStream == 5       \* bytes the caller sends on the connection

NL == 0

SP == 1

Ch == 2

Bad == 3

Lead == 4

Trail == 5

Wide == 6

Repl == 7

Bytes == {NL, SP, Ch, Bad, Lead, Trail}

(* what the caller's JSON.stringify and socket.write can produce *)
WellFormed(s) ==
    /\ \A i \in 1..Len(s) : s[i] = Lead => (i < Len(s) /\ s[i + 1] = Trail)
    /\ \A i \in 1..Len(s) : s[i] = Trail => (i > 1 /\ s[i - 1] = Lead)

(* Buffer.toString(): a lead byte with its trail byte is one character, a  *)
(* lead or trail byte by itself becomes U+FFFD                             *)
RECURSIVE DecodeFrom(_, _)
DecodeFrom(bytes, i) ==
    IF i > Len(bytes) THEN <<>>
    ELSE IF bytes[i] = Lead /\ i < Len(bytes) /\ bytes[i + 1] = Trail
         THEN <<Wide>> \o DecodeFrom(bytes, i + 2)
    ELSE IF bytes[i] \in {Lead, Trail} THEN <<Repl>> \o DecodeFrom(bytes, i + 1)
    ELSE <<bytes[i]>> \o DecodeFrom(bytes, i + 1)

toString(bytes) == DecodeFrom(bytes, 1)

RECURSIVE Streams(_)
Streams(n) ==
    IF n = 0 THEN {<<>>}
    ELSE Streams(n - 1) \cup {Append(s, b) : s \in {t \in Streams(n - 1) : Len(t) = n - 1}, b \in Bytes}

(* buffer.indexOf('\n'): 0 when there is none (1-based otherwise) *)
IndexOf(buf, b) ==
    IF \E i \in 1..Len(buf) : buf[i] = b
    THEN CHOOSE i \in 1..Len(buf) : buf[i] = b /\ \A k \in 1..(i - 1) : buf[k] # b
    ELSE 0

(* !line.trim() *)
IsBlank(line) == \A i \in 1..Len(line) : line[i] = SP

(* JSON.parse(line) returns *)
Parses(line) == \A i \in 1..Len(line) : line[i] # Bad

(* one turn of the while loop: the line up to the first newline *)
NextLine(buf) ==
    LET idx == IndexOf(buf, NL)
    IN IF idx = 0
       THEN [found |-> FALSE, line |-> <<>>, rest |-> buf]
       ELSE [found |-> TRUE, line |-> SubSeq(buf, 1, idx - 1),
             rest |-> SubSeq(buf, idx + 1, Len(buf))]

(* the while loop up to its first await: blank lines are skipped, a line   *)
(* that does not parse is answered with an error at once, a record is      *)
(* handed to handleSocketRequest and the run is suspended                  *)
RECURSIVE RunLoop(_, _)
RunLoop(buf, errs) ==
    LET n == NextLine(buf)
    IN IF ~n.found THEN [buffer |-> buf, await |-> FALSE, line |-> <<>>, errs |-> errs]
       ELSE IF IsBlank(n.line) THEN RunLoop(n.rest, errs)
       ELSE IF ~Parses(n.line) THEN RunLoop(n.rest, Append(errs, n.line))
       ELSE [buffer |-> n.rest, await |-> TRUE, line |-> n.line, errs |-> errs]

FFrame == UNCHANGED <<dvars, avars, svars, cvars, pvars, kvars, lvars, lastOp>>

FInit ==
    /\ fSent \in {s \in Streams(MaxStream) : WellFormed(s)}
    /\ fRest = fSent
    /\ fBuffer = <<>>
    /\ fHandlers = <<>>
    /\ fDispatched = <<>>
    /\ fAnswers = <<>>

Without(seq, i) == SubSeq(seq, 1, i - 1) \o SubSeq(seq, i + 1, Len(seq))

(* a run of the handler goes through the loop from buffer buf *)
Loop(buf, waiting, written) ==
    LET r == RunLoop(buf, <<>>)
    IN /\ fBuffer' = r.buffer
       /\ fHandlers' = IF r.await THEN Append(waiting, r.line) ELSE waiting
       /\ fDispatched' = IF r.await THEN Append(fDispatched, r.line) ELSE fDispatched
       /\ fAnswers' = written \o r.errs

(* 'data': the next n bytes arrive; buffer += data, then the loop *)
FData(n) ==
    /\ n \in 1..Len(fRest)
    /\ fRest' = SubSeq(fRest, n + 1, Len(fRest))
    /\ Loop(fBuffer \o toString(SubSeq(fRest, 1, n)), fHandlers, fAnswers)
    /\ UNCHANGED fSent
    /\ FFrame

(* handleSocketRequest returns to the i-th suspended run: the response is  *)
(* written and the run goes on with its loop                               *)
FResume(i) ==
    /\ i \in 1..Len(fHandlers)
    /\ Loop(fBuffer, Without(fHandlers, i), Append(fAnswers, fHandlers[i]))
    /\ UNCHANGED <<fSent, fRest>>
    /\ FFrame

FNext ==
    \/ \E n \in 1..MaxStream : FData(n)
    \/ \E i \in 1..MaxStream : FResume(i)

InitFraming ==
    FInit /\ DIdle /\ AIdle /\ SIdle /\ CIdle /\ PIdle /\ KIdle /\ LIdle /\ lastOp = Op("init", "", FALSE)

SpecFraming == InitFraming /\ [][FNext]_vars

(***************************************************************************)
(* getPortForSession, in socket.ts (the daemon's side) and in              *)
(* socket-client.ts (the caller's side).  A session name is a sequence of  *)
(* UTF-16 code units.  A 32-bit integer is kept as its two 16-bit halves,  *)
(* so that `<< 5` and `|= 0` wrap as they do in the program.               *)
(***************************************************************************)
MaxNameLen == 5      \* code units of a session-group name

CodeUnits == {45, 97, 122, 65535}

Half == 65536

PortBase == 49152

PortSpan == 16383

Word(hi, lo) == [hi |-> hi % Half, lo |-> lo % Half]

(* w << 5 *)
Shl5(w) == Word(w.hi * 32 + (w.lo * 32) \div Half, w.lo * 32)

(* (a - b) | 0 *)
Minus(a, b) ==
    IF a.lo >= b.lo THEN Word(a.hi - b.hi + Half, a.lo - b.lo)
    ELSE Word(a.hi - b.hi - 1 + Half, a.lo - b.lo + Half)

(* (w + c) | 0 for a code unit c *)
Plus(w, c) == Word(w.hi + (w.lo + c) \div Half, w.lo + c)

IsNegative(w) == w.hi >= Half \div 2

(* Math.abs: the magnitude, as an unsigned 32-bit quantity *)
Abs(w) == IF IsNegative(w) THEN Minus(Word(0, 0), w) ELSE w

(* m % 16383 for a magnitude m *)
Mod(m, n) == ((m.hi % n) * (Half % n) + m.lo) % n

(* the loop: hash = (hash << 5) - hash + session.charCodeAt(i); hash |= 0 *)
RECURSIVE HashFrom(_, _, _)
HashFrom(hash, session, i) ==
    IF i > Len(session) THEN hash
    ELSE HashFrom(Plus(Minus(Shl5(hash), hash), session[i]), session, i + 1)

(* variant: the remainder of the signed hash, without Math.abs *)
getPortForSession_Signed(session) ==
    LET hash == HashFrom(Word(0, 0), session, 1)
    IN IF IsNegative(hash) THEN PortBase - Mod(Abs(hash), PortSpan)
       ELSE PortBase + Mod(hash, PortSpan)

(* socket.ts *)
getPortForSession(session) ==
    LET hash == HashFrom(Word(0, 0), session, 1)
    IN PortBase + Mod(Abs(hash), PortSpan)

(* socket-client.ts *)
getPortForSessionClient(session) ==
    LET hash == HashFrom(Word(0, 0), session, 1)
    IN PortBase + Mod(Abs(hash), PortSpan)

NoPorts == [daemon |-> 0, client |-> 0]

NFrame == UNCHANGED <<dvars, avars, svars, cvars, pvars, kvars, fvars, lastOp>>

NInit ==
    /\ sessionName = <<>>
    /\ ports = NoPorts
    /\ isWindows = FALSE
    /\ pidFile = 0
    /\ addrFile = 0
    /\ daemons = <<>>
    /\ callers = <<>>
    /\ lastCheck = [impl |-> "none", hadPid |-> FALSE, probe |-> FALSE, accepts |-> FALSE, result |-> FALSE]

(* one more code unit of the session-group name *)
NType(c) ==
    /\ Len(sessionName) < MaxNameLen
    /\ sessionName' = Append(sessionName, c)
    /\ ports' = NoPorts
    /\ UNCHANGED <<isWindows, pidFile, addrFile, daemons, callers, lastCheck>>
    /\ NFrame

(* the daemon and a caller derive the port of the session group *)
NResolve ==
    /\ ports = NoPorts
    /\ ports' = [daemon |-> getPortForSession(sessionName),
                 client |-> getPortForSessionClient(sessionName)]
    /\ UNCHANGED <<sessionName, isWindows, pidFile, addrFile, daemons, callers, lastCheck>>
    /\ NFrame

(* another name is taken up *)
NClear ==
    /\ ports # NoPorts
    /\ sessionName' = <<>>
    /\ ports' = NoPorts
    /\ UNCHANGED <<isWindows, pidFile, addrFile, daemons, callers, lastCheck>>
    /\ NFrame

NNext ==
    \/ \E c \in CodeUnits : NType(c)
    \/ NResolve
    \/ NClear

InitPorts ==
    NInit /\ DIdle /\ AIdle /\ SIdle /\ CIdle /\ PIdle /\ KIdle /\ FIdle /\ lastOp = Op("init", "", FALSE)

SpecPorts == InitPorts /\ [][NNext]_vars

(***************************************************************************)
(* Daemon processes of one session group and the callers that look for     *)
(* them: MCPDaemon.start, the liveness checks, ensureDaemon.                *)
(*                                                                         *)
(* The pid of a daemon is its index in daemons.  pidFile is 0 (no file) or *)
(* the pid recorded; addrFile is 0 or the pid of the daemon that created   *)
(* the socket file (the port file on Windows).  A daemon is "spawned",     *)
(* "preconnecting" (start() has cleaned up and awaits preconnectServers),  *)
(* "running" (listening) or "dead".                                        *)
(***************************************************************************)
MaxDaemons == 2      \* daemon processes spawned
MaxCallers == 2      \* ensureDaemon calls

Alive(pid) == pid \in DOMAIN daemons /\ daemons[pid].pc # "dead"

Serving == {d \in DOMAIN daemons : daemons[d].pc = "running"}

(* process.kill(pid, 0) returns *)
Probe(pid) == Alive(pid)

(* a connection to the address of the session group is accepted: the port  *)
(* is held by a listener, or the socket file is that of a live listener    *)
Connectable(D, addr) ==
    IF isWindows THEN \E d \in DOMAIN D : D[d].pc = "running"
    ELSE addr # 0 /\ D[addr].pc = "running"

Check(result, cleanup) == [result |-> result, cleanup |-> cleanup]

(* isDaemonRunning of socket.ts: cleanupSocket when the probe fails *)
isDaemonRunning ==
    IF pidFile = 0 THEN Check(FALSE, FALSE)
    ELSE IF Probe(pidFile) THEN Check(TRUE, FALSE)
    ELSE Check(FALSE, TRUE)

(* isDaemonRunning of socket-client.ts *)
isDaemonRunningClient ==
    Check(pidFile # 0 /\ Probe(pidFile), FALSE)

(* variant: the check of the CLI without its connection attempt *)
isDaemonRunningCli_PidOnly == isDaemonRunning

(* isDaemonRunning of cli/utils/daemon.ts: the pid file check, then an     *)
(* attempt to connect                                                      *)
isDaemonRunningCli ==
    LET c == isDaemonRunning
    IN IF c.result THEN c
       ELSE Check(Connectable(daemons, IF c.cleanup THEN 0 ELSE addrFile), c.cleanup)

Impl(i) ==
    CASE i = "socket" -> isDaemonRunning
      [] i = "socket-client" -> isDaemonRunningClient
      [] OTHER -> isDaemonRunningCli

(* the effect of one liveness check on the files, and its record *)
Checked(i) ==
    /\ lastCheck' = [impl |-> i, hadPid |-> pidFile # 0,
                     probe |-> pidFile # 0 /\ Probe(pidFile),
                     accepts |-> Connectable(daemons, IF Impl(i).cleanup THEN 0 ELSE addrFile),
                     result |-> Impl(i).result]
    /\ pidFile' = IF Impl(i).cleanup THEN 0 ELSE pidFile
    /\ addrFile' = IF Impl(i).cleanup THEN 0 ELSE addrFile

LFrame == UNCHANGED <<dvars, avars, svars, cvars, pvars, kvars, fvars, lastOp, sessionName, ports>>

LInit ==
    /\ isWindows \in BOOLEAN
    /\ pidFile = 0
    /\ addrFile = 0
    /\ daemons = <<>>
    /\ callers = <<>>
    /\ lastCheck = [impl |-> "none", hadPid |-> FALSE, probe |-> FALSE, accepts |-> FALSE, result |-> FALSE]
    /\ sessionName = <<>>
    /\ ports = NoPorts

Daemon(pc) == [pc |-> pc]

(* the daemon entry point is run by hand *)
LRunEntry ==
    /\ Len(daemons) < MaxDaemons
    /\ daemons' = Append(daemons, Daemon("spawned"))
    /\ UNCHANGED <<isWindows, pidFile, addrFile, callers, lastCheck>>
    /\ LFrame

(* start(): cleanupSocket, then await preconnectServers *)
LStartCleanup(d) ==
    /\ d \in DOMAIN daemons
    /\ daemons[d].pc = "spawned"
    /\ pidFile' = 0
    /\ addrFile' = 0
    /\ daemons' = [daemons EXCEPT ![d].pc = "preconnecting"]
    /\ UNCHANGED <<isWindows, callers, lastCheck>>
    /\ LFrame

(* start() after preconnectServers: writePidFile, startListening.  On      *)
(* Windows listen fails while the port is held and the process exits; the  *)
(* socket file of another daemon is unlinked and replaced.                 *)
LStartListen(d) ==
    /\ d \in DOMAIN daemons
    /\ daemons[d].pc = "preconnecting"
    /\ pidFile' = d
    /\ addrFile' = d
    /\ daemons' = [daemons EXCEPT ![d].pc =
                      IF isWindows /\ Serving # {} THEN "dead" ELSE "running"]
    /\ UNCHANGED <<isWindows, callers, lastCheck>>
    /\ LFrame

(* SIGINT or shutdown: stop() ends in cleanupSocket, the process exits *)
LStop(d) ==
    /\ d \in Serving
    /\ pidFile' = 0
    /\ addrFile' = 0
    /\ daemons' = [daemons EXCEPT ![d].pc = "dead"]
    /\ UNCHANGED <<isWindows, callers, lastCheck>>
    /\ LFrame

(* the process is killed: nothing is cleaned up *)
LKill(d) ==
    /\ d \in DOMAIN daemons
    /\ Alive(d)
    /\ daemons' = [daemons EXCEPT ![d].pc = "dead"]
    /\ UNCHANGED <<isWindows, pidFile, addrFile, callers, lastCheck>>
    /\ LFrame

(* a caller runs one of the liveness checks *)
LCheck(i) ==
    /\ Checked(i)
    /\ UNCHANGED <<isWindows, daemons, callers>>
    /\ LFrame

(* ensureDaemon: the check, and spawnDaemon when it finds no daemon *)
LEnsure ==
    /\ Len(callers) < MaxCallers
    /\ Checked("cli")
    /\ IF isDaemonRunningCli.result
       THEN /\ callers' = Append(callers, "alreadyRunning")
            /\ UNCHANGED daemons
       ELSE /\ Len(daemons) < MaxDaemons
            /\ callers' = Append(callers, "waiting")
            /\ daemons' = Append(daemons, Daemon("spawned"))
    /\ UNCHANGED isWindows
    /\ LFrame

(* waitForDaemon: one poll; the last one throws *)
LWait(c, last) ==
    /\ c \in DOMAIN callers
    /\ callers[c] = "waiting"
    /\ Checked("cli")
    /\ callers' = [callers EXCEPT ![c] =
                      IF isDaemonRunningCli.result THEN "started"
                      ELSE IF last THEN "failed" ELSE @]
    /\ UNCHANGED <<isWindows, daemons>>
    /\ LFrame

LNext ==
    \/ LRunEntry
    \/ \E d \in 1..MaxDaemons : LStartCleanup(d)
    \/ \E d \in 1..MaxDaemons : LStartListen(d)
    \/ \E d \in 1..MaxDaemons : LStop(d)
    \/ \E d \in 1..MaxDaemons : LKill(d)
    \/ \E i \in {"socket", "socket-client", "cli"} : LCheck(i)
    \/ LEnsure
    \/ \E c \in 1..MaxCallers, last \in BOOLEAN : LWait(c, last)

InitLauncher ==
    LInit /\ DIdle /\ AIdle /\ SIdle /\ CIdle /\ PIdle /\ KIdle /\ FIdle /\ lastOp = Op("init", "", FALSE)

SpecLauncher == InitLauncher /\ [][LNext]_vars

(***************************************************************************)
(* Further properties of the socket front-end (SpecSocket).                *)
(***************************************************************************)
(* C36: a reload that finds an unloadable configuration file is answered   *)
(* success:false, and the step that answers it leaves the registry, the    *)
(* in-memory configuration and every client as they were; the daemon stays *)
(* up.                                                                     *)
ReloadOfBadFile ==
    /\ Responds
    /\ lastResp'.req.t = "cmd" /\ lastResp'.req.action = "reload"
    /\ lastResp'.req.disk.kind = "invalid"

C36_FailedReloadChangesNothing ==
    [][ReloadOfBadFile => /\ ~lastResp'.resp.success
                          /\ sessions' = sessions
                          /\ serverConfigs' = serverConfigs
                          /\ clients' = clients
                          /\ phase' = "running"
                          /\ running' = running]_vars

C36_Witness ==
    /\ lastResp.t = "resp" /\ lastResp.req.t = "cmd"
    /\ lastResp.req.action = "reload" /\ lastResp.req.disk.kind = "invalid"
    /\ lastResp.written /\ ~lastResp.resp.success
    /\ "a" \in DOMAIN sessions /\ isConnected(clients[sessions["a"].client])
    /\ serverConfigs = CfgA.servers

(* C39: the response to a shutdown command reaches the connection that     *)
(* sent it: it is written while that connection is still open.             *)
C39_ShutdownAnswered ==
    [][(Responds /\ lastResp'.req.t = "cmd" /\ lastResp'.req.action = "shutdown") =>
          /\ lastResp'.written
          /\ lastResp'.resp.success
          /\ lastResp'.resp.id = lastResp'.req.id]_vars

(* C33: every session held in the registry belongs to a client whose      *)
(* connect has completed and whose disconnect has not: names that are      *)
(* connecting, failed, disconnected or evicted are absent.                 *)
LiveEntry(n) ==
    /\ clients[sessions[n].client].conn = "done"
    /\ isConnected(clients[sessions[n].client])

C33_RegistryHoldsConnectedOnly ==
    phase = "running" => \A n \in DOMAIN sessions : LiveEntry(n)

(***************************************************************************)
(* Properties of the caller's socket client (SpecSocketClient).            *)
(***************************************************************************)
Issued == {j \in DOMAIN kSends : kSends[j].id # 0}

SettledAs(j) == kSends[j].out.k

C37_ErrorClasses ==
    \A j \in DOMAIN kSends :
        /\ (SettledAs(j) = "resolved" /\ ~kSends[j].out.body.success /\ kSends[j].out.body.error # <<>>)
              => kSends[j].raised = ConnectionFailedError(kSends[j].out.body.error)
        /\ kSends[j].raised.cls = "DaemonNotRunningError"
              => SettledAs(j) \in {"connectFailed", "connectTimeout"}

(* C40: while every send so far was called before the first connection of  *)
(* the client was established, the client has opened one socket and        *)
(* attached its handlers to it once, and a send that resolved did so with  *)
(* its own id.                                                             *)
C40_OneConnectionForEarlySends ==
    (\A j \in DOMAIN kSends : kSends[j].early) =>
        /\ Len(kSockets) <= 1
        /\ \A s \in DOMAIN kSockets : kSockets[s].handlers <= 1
        /\ \A j \in DOMAIN kSends :
              SettledAs(j) = "resolved" => kSends[j].out.rid = kSends[j].id

(***************************************************************************)
(* Properties of the line framing (SpecFraming).                           *)
(***************************************************************************)
Delivered == SubSeq(fSent, 1, Len(fSent) - Len(fRest))

(* the newline-terminated records of a stream, in order *)
RECURSIVE RecordsFrom(_, _, _)
RecordsFrom(s, i, cur) ==
    IF i > Len(s) THEN <<>>
    ELSE IF s[i] = NL THEN <<cur>> \o RecordsFrom(s, i + 1, <<>>)
    ELSE RecordsFrom(s, i + 1, Append(cur, s[i]))

IsCommand(r) == ~IsBlank(r) /\ Parses(r)

Commands(s) == SelectSeq(RecordsFrom(s, 1, <<>>), IsCommand)

IsPrefix(a, b) == Len(a) <= Len(b) /\ SubSeq(b, 1, Len(a)) = a

Times31Plus(w, c) ==
    Word(w.hi * 31 + (w.lo * 31 + c) \div Half, w.lo * 31 + c)

(* the hash of a name as a polynomial in 31, wrapped to 32 bits *)
RECURSIVE Hash31(_, _)
Hash31(name, n) ==
    IF n = 0 THEN Word(0, 0) ELSE Times31Plus(Hash31(name, n - 1), name[n])

(* |h| mod 16383 for the signed value of a 32-bit word, by its 8-bit       *)
(* digits                                                                  *)
Magnitude(w) ==
    IF w.hi >= 32768
    THEN IF w.lo = 0 THEN [hi |-> 65536 - w.hi, lo |-> 0]
         ELSE [hi |-> 65535 - w.hi, lo |-> 65536 - w.lo]
    ELSE w

Residue(m) ==
    LET d3 == m.hi \div 256
        d2 == m.hi % 256
        d1 == m.lo \div 256
        d0 == m.lo % 256
        r3 == d3 % PortSpan
        r2 == (r3 * 256 + d2) % PortSpan
        r1 == (r2 * 256 + d1) % PortSpan
    IN (r1 * 256 + d0) % PortSpan

(* C32: the port of a session group is 49152 + (|h| mod 16383) for the     *)
(* 32-bit wrapped hash h of its name, lies in 49152..65535, and is the     *)
(* same on the daemon's and on the caller's side.                          *)
C32_PortOfSession ==
    ports # NoPorts =>
        /\ ports.daemon = PortBase + Residue(Magnitude(Hash31(sessionName, Len(sessionName))))
        /\ ports.daemon \in 49152..65535
        /\ ports.client = ports.daemon

(* a name whose hash has wrapped to a negative value *)
C32_Witness ==
    /\ ports # NoPorts
    /\ Len(sessionName) = MaxNameLen
    /\ Hash31(sessionName, Len(sessionName)).hi >= 32768
    /\ ports.daemon > PortBase

(***************************************************************************)
(* Properties of the launcher (SpecLauncher).                              *)
(***************************************************************************)
PidSaysRunning == lastCheck.hadPid /\ lastCheck.probe

StartStep(d) == LStartCleanup(d) \/ LStartListen(d)

C38_OneDaemonPerGroup ==
    /\ [](Cardinality(Serving) <= 1)
    /\ [][\A d \in 1..MaxDaemons :
             (StartStep(d) /\ Serving # {} /\ pidFile \in Serving) =>
                 (pidFile' = pidFile /\ addrFile' = addrFile)]_vars

====
